---------------------------- MODULE Spec2Model ----------------------------
(***************************************************************************)
(* State-machine model of the nsflow live-session fan-out engine:          *)
(*   - NsGrpcServiceApi (src/nsflow/backend/utils/ns_grpc_service.py) and  *)
(*     the module-level twin in src/nsflow/backend/api/v1/fast_websocket.py*)
(*     (log_event / broadcast_log / websocket handlers / streaming chat),  *)
(*   - the logs-manager registry (websocket_logs_registry.py).             *)
(*                                                                         *)
(* Scheduling model: asyncio, one event loop.  Code between two awaits is  *)
(* one atomic action; every `await websocket.send_text(...)` is one action *)
(* (the delivery), and other coroutines may run before and after it.       *)
(* The peer of a socket (browser) and the upstream runtime are the         *)
(* environment: they close, stall, send frames and yield stream messages.  *)
(*                                                                         *)
(* Optional Python values: None is <<>>, a value v is <<v>>.               *)
(***************************************************************************)
EXTENDS Naturals, Integers, Sequences, FiniteSets, TLC

\* ------------------------------------------------------------------ bounds

\* Longest upstream stream (number of response messages) of one turn.
MaxMsgs == 2

\* Longest upstream stream of each of the concurrent turns of SpecTurns.
MaxConcurrentMsgs == 1

\* Cap on log_event calls in SpecBuffer (must exceed LOG_BUFFER_SIZE).
MaxBufferPublishes == 104

\* Cap on get_logs_manager calls in SpecRegistry.
MaxLookups == 4

\* ------------------------------------------------------- program constants

LOG_BUFFER_SIZE == 100

\* ------------------------------------------------------------ identities

LogSocks == {"L1", "L2"}
IChatSocks == {"I1", "I2"}
Clients == {"c1", "c2"}

\* Chat websockets: one whose str(websocket.client) is its own name, for
\* each client identity, and c1b, whose str(websocket.client) is "c1" too.
ChatSockets == Clients \cup {"c1b"}
Turns == {"t1", "t2"}

\* Chat connections served by an NsGrpcServiceApi object each.
ApiConns == {"a1", "a2"}

\* The websocket object of a handler that has ended: closed, registered
\* nowhere, and still the object an outstanding send_text was called on.
EarlierWebsocket == "c0"

Sockets == LogSocks \cup IChatSocks \cup ChatSockets \cup ApiConns
             \cup {EarlierWebsocket}
\* Calls of background_response_handler (one, for client BgClient).
Backgrounds == {"b1"}
BgClient == "c1"

Tasks == Sockets \cup Turns \cup Backgrounds

\* The order in which asyncio.create_task hands out the model's turn slots.
TurnOrder == <<"t1", "t2">>

None == <<>>
Some(v) == <<v>>

\* client_id = str(websocket.client)
client_id(websocket) == IF websocket = "c1b" THEN "c1" ELSE websocket

\* active_chat_connections[client_id] = websocket (conns holds the
\* websockets that are values of the dict, one per key at most)
RegisterWebsocket(conns, websocket) ==
    {ws \in conns : client_id(ws) # client_id(websocket)} \cup {websocket}

\* client_id in active_chat_connections
Registered(conns, c) == \E ws \in conns : client_id(ws) = c

\* active_chat_connections[client_id]
RegisteredSocket(conns, c) == CHOOSE ws \in conns : client_id(ws) = c

\* active_chat_connections.pop(client_id, None)
Pop(conns, c) == {ws \in conns : client_id(ws) # c}

VARIABLES
    log_buffer,                        \* self.log_buffer
    active_log_connections,            \* self.active_log_connections (list)
    active_internal_chat_connections,  \* self.active_internal_chat_connections
    active_chat_connections,           \* values of self.active_chat_connections
    sock,         \* per socket: "idle" | "open" | "closed" | "stalled"
    inbox,        \* per socket: the frames its peer has received, in order
    pc,           \* per coroutine: where it resumes
    iter,         \* per coroutine: the broadcast loop it is inside
    owner,        \* per turn: its parameter client_id
    consumed,     \* per turn: upstream messages taken from the generator
    final_response,   \* per turn: local final_response
    otrace,           \* per turn: local otrace
    internal_chat,    \* per turn: local internal_chat
    finalOutcome,     \* per turn: what happened to the FinalAnswer
    published,    \* number of log_event calls so far (tags entries)
    backlog,      \* per log socket: log_buffer as it was when it subscribed
    logs_managers,    \* registry: key -> instance id (0: absent)
    created,          \* registry: instance ids constructed, per key
    held,             \* registry: per connection, the instance it got
    lookups,          \* registry: get_logs_manager calls so far
    chat_context,     \* per NsGrpcServiceApi: self.chat_context ("" is {})
    request_data,     \* per NsGrpcServiceApi: the request of the turn in hand
    api_turn,         \* per NsGrpcServiceApi: locals of stream_chat_to_websocket
    api_requests,     \* per NsGrpcServiceApi: the requests issued so far
    api_done,         \* per NsGrpcServiceApi: the turns that have returned
    api_published,    \* per NsGrpcServiceApi: its calls on self.logs_manager
    received,         \* per NsGrpcServiceApi: the frames receive_text returned
    user_sessions,    \* fast_websocket: user_sessions (per client: None, or
                      \*   Some(session_id) with "" for session_id None)
    last_response,    \* fast_websocket turn: local last_response
    response_chunk,   \* fast_websocket turn: the loop variable response_chunk
    send_socket,      \* fast_websocket task: the websocket object whose
                      \*   send_text it awaits (None: no send outstanding)
    sse,              \* stream_logs: the event_generator of one SSE client
    fn_call,          \* a call of a function of the utilities: its name,
                      \*   its arguments and, once it returned, its result
    _managers,        \* StateRegistry._managers: the registry keys it holds
    _network_to_keys, \* StateRegistry._network_to_keys: name -> list of keys
    _registry_instance, \* the SimpleStateRegistry: its three dicts
    copilot_loads, \* the load_from_copilot_state calls made, with their results
    uuids,         \* the uuid4 values drawn for design ids so far
    state_manager, \* a StateManager: network_states, subscribers, state_lock
    sm_thread,     \* the thread calling the StateManager: stack and history
    build,         \* build_nodes_and_edges: the locals of the call in hand
    network_files,     \* registry dir: network name -> the `tools` of its file
    manifest,          \* manifest.hocon: the network names it enables
    editing_sessions,  \* AndEditor.editing_sessions: network name -> state
    http_response,     \* andeditor: the last request and its status code
    pipe,              \* the child's pipe: the lines written, read, closed
    tee,               \* ProcessLogTee: tee file, console, JsonReassembler
    chat_agent_name,   \* per chat handler: its parameter agent_name
    message_data       \* per chat handler: its local message_data (the
                       \*   frame json.loads returned last)

busVars == <<log_buffer, active_log_connections,
             active_internal_chat_connections, active_chat_connections,
             sock, inbox, pc, iter, owner, consumed, final_response, otrace,
             internal_chat, finalOutcome, published, backlog>>
regVars == <<logs_managers, created, held, lookups>>
apiVars == <<chat_context, request_data, api_turn, api_requests, api_done,
             api_published, received>>
wsVars == <<user_sessions, last_response, response_chunk, send_socket>>
stateRegistryVars == <<_managers, _network_to_keys>>
simpleRegistryVars == <<_registry_instance, copilot_loads, uuids>>
stateManagerVars == <<state_manager, sm_thread>>
andEditorVars == <<network_files, manifest, editing_sessions, http_response>>
teeVars == <<pipe, tee>>
handlerVars == <<chat_agent_name, message_data>>
edVars == <<stateRegistryVars, simpleRegistryVars, stateManagerVars, build,
           andEditorVars, teeVars>>
extVars == <<apiVars, wsVars, sse, fn_call, edVars, handlerVars>>
vars == <<busVars, regVars, extVars>>

\* What the calls on one object of the editor leave alone.
coreVars == <<busVars, regVars, apiVars, wsVars, sse, fn_call, handlerVars>>
exceptStateRegistry == <<coreVars, simpleRegistryVars, stateManagerVars, build,
    andEditorVars, teeVars>>
exceptSimpleRegistry == <<coreVars, stateRegistryVars, stateManagerVars, build,
    andEditorVars, teeVars>>
exceptStateManager == <<coreVars, stateRegistryVars, simpleRegistryVars, build,
    andEditorVars, teeVars>>
exceptBuild == <<busVars, regVars, apiVars, wsVars, sse, handlerVars,
                 stateRegistryVars,
                 simpleRegistryVars, stateManagerVars, andEditorVars,
                 teeVars>>
exceptAndEditor == <<coreVars, stateRegistryVars, simpleRegistryVars,
                     stateManagerVars, build, teeVars>>
exceptTee == <<coreVars, stateRegistryVars, simpleRegistryVars,
               stateManagerVars, build, andEditorVars>>

\* --------------------------------------------------------------- helpers

Range(s) == {s[i] : i \in 1..Len(s)}

IsPrefix(p, s) == Len(p) <= Len(s) /\ SubSeq(s, 1, Len(p)) = p

\* list.remove(x): drop the first occurrence of x.
RECURSIVE ListRemove(_, _)
ListRemove(s, x) ==
    IF s = <<>> THEN <<>>
    ELSE IF Head(s) = x THEN Tail(s)
    ELSE <<Head(s)>> \o ListRemove(Tail(s), x)

\* list.remove(x) raises ValueError when x is not in the list.
ListRemoveRaises(s, x) == x \notin Range(s)

RECURSIVE SelectTask(_, _)
SelectTask(s, t) ==
    IF s = <<>> THEN <<>>
    ELSE IF Head(s).task = t THEN <<Head(s)>> \o SelectTask(Tail(s), t)
    ELSE SelectTask(Tail(s), t)

Min(a, b) == IF a < b THEN a ELSE b

\* A message payload: log text / internal chat payload, by kind.
Msg(kind, text, ot) == [kind |-> kind, text |-> text, otrace |-> ot]

NoEntry == [id |-> 0, message |-> Msg("none", None, None), source |-> "",
            task |-> "", n |-> 0]
NoIter == [kind |-> "none", entry |-> NoEntry, idx |-> 1, start |-> <<>>,
           websocket |-> None]


\* (mutant of Truthy: `if final_response is not None`)
Truthy_NotNone(v) == v # None

\* Python truthiness of an optional string: None and "" are falsy.
Truthy(v) == v # None /\ v # Some("")

\* ------------------------------------------------ upstream message shapes

\* One response message of the upstream stream (json dict "response").
Upstream(type, text, origin) == [type |-> type, text |-> text, origin |-> origin]

Tool(name) == [tool |-> name]

UpstreamMessages ==
    { Upstream("AI", "A", <<>>),
      Upstream("AI", "B", <<>>),
      Upstream("AI", "", <<>>),
      Upstream("AGENT", "routing", <<Tool("x"), Tool("y")>>),
      Upstream("AGENT_TOOL_RESULT", "result", <<Tool("y")>>) }

\* ------------------------------------------------- log_event / broadcast

\* (mutant of Evict: pops the newest entry, log_buffer.pop())
Evict_Newest(buf) ==
    IF Len(buf) > LOG_BUFFER_SIZE THEN SubSeq(buf, 1, Len(buf) - 1) ELSE buf

\* log_buffer.pop(0) once the buffer is over capacity.
Evict(buf) == IF Len(buf) > LOG_BUFFER_SIZE THEN Tail(buf) ELSE buf

\* The for statement takes the next element of the list iterator: the
\* element at the iterator's index in the list as it is now bound to
\* `websocket`, and `await websocket.send_text(..)` started; or, with the
\* index past the end, the loop over.
ForNext(it, conns) ==
    IF it.idx <= Len(conns)
    THEN [it EXCEPT !.websocket = Some(conns[it.idx]), !.idx = @ + 1]
    ELSE [it EXCEPT !.websocket = None]

\* The synchronous prefix of log_event: build the entry, append, evict, and
\* enter broadcast_log's for loop over the live list `conns`, up to its
\* first `await websocket.send_text(..)`.
log_event(t, message, source, n, conns) ==
    LET log_entry == [id |-> published + 1, message |-> message,
                      source |-> source, task |-> t, n |-> n]
    IN  /\ log_buffer' = Evict(Append(log_buffer, log_entry))
        /\ published' = published + 1
        /\ iter' = [iter EXCEPT ![t] =
               ForNext([kind |-> "log", entry |-> log_entry, idx |-> 1,
                        start |-> conns, websocket |-> None], conns)]

\* internal_chat_event: wrap the payload and enter broadcast_internal_chat,
\* up to its first `await websocket.send_text(..)`.
internal_chat_event(t, message, n, conns) ==
    LET internal_chat_entry == [id |-> 0, message |-> message, source |-> "",
                                task |-> t, n |-> n]
    IN  iter' = [iter EXCEPT ![t] =
            ForNext([kind |-> "ichat", entry |-> internal_chat_entry,
                     idx |-> 1, start |-> conns, websocket |-> None], conns)]

\* Coroutine t is in no broadcast loop, or its loop is over: no send_text
\* of a broadcast is outstanding.
Exhausted(t) == iter[t].websocket = None

\* `await websocket.send_text(..)` to `websocket` returns, or raises
\* WebSocketDisconnect and the except branch runs conns.remove(websocket),
\* which raises ValueError when another broadcast has removed the sink in
\* the meantime.
AfterSend(conns, websocket) ==
    IF sock[websocket] = "open" THEN [conns |-> conns, raised |-> ""]
    ELSE IF ListRemoveRaises(conns, websocket)
         THEN [conns |-> conns, raised |-> "ValueError"]
         ELSE [conns |-> ListRemove(conns, websocket), raised |-> ""]

\* The outstanding send_text of coroutine t's broadcast_log ends, and the
\* for loop goes on to its next send_text.  A ValueError of remove leaves
\* broadcast_log and log_event and reaches the code that awaited log_event:
\* no caller catches it but handle_streaming_chat (`except Exception`,
\* which logs it and returns), so the coroutine ends there.
BroadcastLogStep(t) ==
    /\ iter[t].kind = "log"
    /\ iter[t].websocket # None
    /\ LET websocket == iter[t].websocket[1]
           r == AfterSend(active_log_connections, websocket)
       IN  /\ sock[websocket] # "stalled"
           /\ inbox' = IF sock[websocket] = "open"
                       THEN [inbox EXCEPT ![websocket] =
                                Append(@, iter[t].entry)]
                       ELSE inbox
           /\ active_log_connections' = r.conns
           /\ IF r.raised # ""
              THEN /\ pc' = [pc EXCEPT ![t] = r.raised]
                   /\ iter' = [iter EXCEPT ![t] = NoIter]
              ELSE /\ iter' = [iter EXCEPT ![t] = ForNext(@, r.conns)]
                   /\ UNCHANGED pc
    /\ UNCHANGED <<log_buffer, active_internal_chat_connections,
                   active_chat_connections, sock, owner, consumed,
                   final_response, otrace, internal_chat, finalOutcome,
                   published, backlog, regVars, extVars>>

\* The same for broadcast_internal_chat and internal_chat_event.
BroadcastInternalChatStep(t) ==
    /\ iter[t].kind = "ichat"
    /\ iter[t].websocket # None
    /\ LET websocket == iter[t].websocket[1]
           r == AfterSend(active_internal_chat_connections, websocket)
       IN  /\ sock[websocket] # "stalled"
           /\ inbox' = IF sock[websocket] = "open"
                       THEN [inbox EXCEPT ![websocket] =
                                Append(@, iter[t].entry)]
                       ELSE inbox
           /\ active_internal_chat_connections' = r.conns
           /\ IF r.raised # ""
              THEN /\ pc' = [pc EXCEPT ![t] = r.raised]
                   /\ iter' = [iter EXCEPT ![t] = NoIter]
              ELSE /\ iter' = [iter EXCEPT ![t] = ForNext(@, r.conns)]
                   /\ UNCHANGED pc
    /\ UNCHANGED <<log_buffer, active_log_connections,
                   active_chat_connections, sock, owner, consumed,
                   final_response, otrace, internal_chat, finalOutcome,
                   published, backlog, regVars, extVars>>

\* ------------------------------------------------------ the environment

\* The browser side of an open socket goes away.
PeerClose(ws) ==
    /\ sock[ws] = "open"
    /\ sock' = [sock EXCEPT ![ws] = "closed"]
    /\ UNCHANGED <<log_buffer, active_log_connections,
                   active_internal_chat_connections, active_chat_connections,
                   inbox, pc, iter, owner, consumed, final_response, otrace,
                   internal_chat, finalOutcome, published, backlog, regVars, extVars>>

\* The browser side stops draining: a send to it never completes.
PeerStall(ws) ==
    /\ sock[ws] = "open"
    /\ sock' = [sock EXCEPT ![ws] = "stalled"]
    /\ UNCHANGED <<log_buffer, active_log_connections,
                   active_internal_chat_connections, active_chat_connections,
                   inbox, pc, iter, owner, consumed, final_response, otrace,
                   internal_chat, finalOutcome, published, backlog, regVars, extVars>>

\* -------------------------------------------------- handle_log_websocket

\* accept, append to the list, log_event("New log client connected").
LogConnect(ws) ==
    /\ pc[ws] = "idle"
    /\ sock' = [sock EXCEPT ![ws] = "open"]
    /\ active_log_connections' = Append(active_log_connections, ws)
    /\ backlog' = [backlog EXCEPT ![ws] = log_buffer]
    /\ log_event(ws, Msg("new_log_client", None, None), "FastAPI", 0,
                 active_log_connections')
    /\ pc' = [pc EXCEPT ![ws] = "subscribed"]
    /\ UNCHANGED <<active_internal_chat_connections, active_chat_connections,
                   inbox, owner, consumed, final_response, otrace,
                   internal_chat, finalOutcome, regVars, extVars>>

\* `while True: await asyncio.sleep(..)`: asyncio.sleep never raises
\* WebSocketDisconnect, so the handler stays here.
LogSleep(ws) ==
    /\ pc[ws] = "subscribed"
    /\ Exhausted(ws)
    /\ pc' = [pc EXCEPT ![ws] = "sleep"]
    /\ iter' = [iter EXCEPT ![ws] = NoIter]
    /\ UNCHANGED <<log_buffer, active_log_connections,
                   active_internal_chat_connections, active_chat_connections,
                   sock, inbox, owner, consumed, final_response, otrace,
                   internal_chat, finalOutcome, published, backlog, regVars, extVars>>

\* ------------------------------------------ handle_internal_chat_websocket

InternalChatConnect(ws) ==
    /\ pc[ws] = "idle"
    /\ sock' = [sock EXCEPT ![ws] = "open"]
    /\ active_internal_chat_connections' =
           Append(active_internal_chat_connections, ws)
    /\ internal_chat_event(ws, Msg("new_internal_chat_client", None, None), 0,
                           active_internal_chat_connections')
    /\ pc' = [pc EXCEPT ![ws] = "subscribed"]
    /\ UNCHANGED <<log_buffer, active_log_connections,
                   active_chat_connections, inbox, owner, consumed,
                   final_response, otrace, internal_chat, finalOutcome,
                   published, backlog, regVars, extVars>>

InternalChatSleep(ws) ==
    /\ pc[ws] = "subscribed"
    /\ Exhausted(ws)
    /\ pc' = [pc EXCEPT ![ws] = "sleep"]
    /\ iter' = [iter EXCEPT ![ws] = NoIter]
    /\ UNCHANGED <<log_buffer, active_log_connections,
                   active_internal_chat_connections, active_chat_connections,
                   sock, inbox, owner, consumed, final_response, otrace,
                   internal_chat, finalOutcome, published, backlog, regVars, extVars>>

\* --------------------------- the subscribers' `except WebSocketDisconnect`
\* The try block is `while True: await asyncio.sleep(..)`, which never
\* raises WebSocketDisconnect: no handler gets to "except", and no
\* specification takes the two branches below.

\* handle_log_websocket: self.active_log_connections.remove(websocket);
\* await self.log_event("Logs client disconnected").  remove raises
\* ValueError when the sink is not in the list: the handler ends with it.
LogDisconnected(ws) ==
    /\ pc[ws] = "except"
    /\ Exhausted(ws)
    /\ IF ListRemoveRaises(active_log_connections, ws)
       THEN /\ pc' = [pc EXCEPT ![ws] = "ValueError"]
            /\ iter' = [iter EXCEPT ![ws] = NoIter]
            /\ UNCHANGED <<active_log_connections, log_buffer, published>>
       ELSE /\ active_log_connections' =
                   ListRemove(active_log_connections, ws)
            /\ log_event(ws, Msg("logs_client_disconnected", None, None),
                         "FastAPI", 0, active_log_connections')
            /\ pc' = [pc EXCEPT ![ws] = "disconnected"]
    /\ UNCHANGED <<active_internal_chat_connections, active_chat_connections,
                   sock, inbox, owner, consumed, final_response, otrace,
                   internal_chat, finalOutcome, backlog, regVars, extVars>>

\* handle_internal_chat_websocket:
\* self.active_internal_chat_connections.remove(websocket);
\* await self.internal_chat_event("Internal chat client disconnected ..").
InternalChatDisconnected(ws) ==
    /\ pc[ws] = "except"
    /\ Exhausted(ws)
    /\ IF ListRemoveRaises(active_internal_chat_connections, ws)
       THEN /\ pc' = [pc EXCEPT ![ws] = "ValueError"]
            /\ iter' = [iter EXCEPT ![ws] = NoIter]
            /\ UNCHANGED active_internal_chat_connections
       ELSE /\ active_internal_chat_connections' =
                   ListRemove(active_internal_chat_connections, ws)
            /\ internal_chat_event(ws,
                   Msg("internal_chat_client_disconnected", None, None), 0,
                   active_internal_chat_connections')
            /\ pc' = [pc EXCEPT ![ws] = "disconnected"]
    /\ UNCHANGED <<log_buffer, active_log_connections,
                   active_chat_connections, sock, inbox, owner, consumed,
                   final_response, otrace, internal_chat, finalOutcome,
                   published, backlog, regVars, extVars>>

\* ------------------------------------------------ handle_chat_websocket

\* A frame, by what json.loads(data) makes of its text: a JSON object with
\* or without the keys "message" and "sly_data", another JSON value, or
\* text that is not JSON.
JsonObject(message, sly_data) ==
    [json |-> "object", message |-> message, sly_data |-> sly_data]
JsonArray == [json |-> "array", message |-> None, sly_data |-> None]
NotJson == [json |-> "invalid", message |-> None, sly_data |-> None]

\* A text, as the sequence of its parts, blanks or line ends between
\* them: "{" "}" "[" "]" are the brackets, "1" is the number 1, "m" is
\* the member `"a": 1`, "r" is the member `"request_id": 1`, and "x" is
\* the word x, which is no JSON.
TextParts == {"{", "}", "[", "]", "1", "m", "r", "x"}

\* json.loads scanning the value that starts at part i of s: the index of
\* the part after the value, 0 when no value starts there.  An object
\* holds one member at most and an array one element at most, two of
\* them having no comma between them.
RECURSIVE JsonValueEnd(_, _)
JsonValueEnd(s, i) ==
    IF i > Len(s) THEN 0
    ELSE IF s[i] = "1" THEN i + 1
    ELSE IF s[i] = "{"
    THEN IF i + 1 <= Len(s) /\ s[i + 1] = "}" THEN i + 2
         ELSE IF i + 2 <= Len(s) /\ s[i + 1] \in {"m", "r"} /\ s[i + 2] = "}"
         THEN i + 3
         ELSE 0
    ELSE IF s[i] = "["
    THEN IF i + 1 <= Len(s) /\ s[i + 1] = "]" THEN i + 2
         ELSE LET e == JsonValueEnd(s, i + 1)
              IN  IF e # 0 /\ e <= Len(s) /\ s[e] = "]" THEN e + 1 ELSE 0
    ELSE 0

\* json.loads(s): the type of the value s is the text of ("dict", "list"
\* or "int"), or "JSONDecodeError".
json_loads(s) ==
    IF JsonValueEnd(s, 1) # Len(s) + 1 THEN "JSONDecodeError"
    ELSE IF s[1] = "{" THEN "dict"
    ELSE IF s[1] = "[" THEN "list"
    ELSE "int"

\* The JSON values of the key "sly_data": an object (its keys) or a
\* string (its text).
JsonDict(keys) == [type |-> "dict", keys |-> keys, text |-> <<>>]
JsonStr(text) == [type |-> "str", keys |-> {}, text |-> text]

\* Frames a chat client sends: {"message": "hello"}, {"message": ""}, `{`,
\* `[]`, and "hello" with sly_data {"k": 1} or with sly_data "{\"a\": 1}".
ChatFrames ==
    { JsonObject(Some("hello"), None),
      JsonObject(Some(""), None),
      NotJson,
      JsonArray,
      JsonObject(Some("hello"), Some(JsonDict({"k"}))),
      JsonObject(Some("hello"), Some(JsonStr(<<"{", "m", "}">>))) }

\* The frames among them a client of the bundled UI sends.
MessageFrames ==
    {JsonObject(Some("hello"), None), JsonObject(Some(""), None)}

\* message_data = json.loads(data); message_data.get(..): what the two
\* lines raise ("" when they raise nothing).
FrameRaises(data) ==
    IF data.json = "invalid" THEN "JSONDecodeError"
    ELSE IF data.json # "object" THEN "AttributeError"
    ELSE ""

\* `if sly_data:` of an optional JSON value.
JsonTruthy(v) ==
    /\ v # None
    /\ IF v[1].type = "dict" THEN v[1].keys # {} ELSE v[1].text # <<>>

\* json.loads(sly_data): TypeError unless sly_data is a str, and
\* JSONDecodeError unless the str is JSON text ("" when it returns).
SlyDataLoadsRaises(v) ==
    IF v[1].type # "str" THEN "TypeError"
    ELSE IF json_loads(v[1].text) = "JSONDecodeError" THEN "JSONDecodeError"
    ELSE ""

\* (mutant of message_get: an absent message defaults to a placeholder)
message_get_Placeholder(parsed) ==
    IF parsed.message = None THEN "?" ELSE parsed.message[1]

\* user_input = message_data.get("message", "")
message_get(parsed) ==
    IF parsed.message = None THEN "" ELSE parsed.message[1]

\* The exceptions that end a handler they escape from.
Raised == {"JSONDecodeError", "AttributeError", "TypeError", "ValueError",
           "KeyError"}

\* The turn slot asyncio.create_task uses next.
FreeTurns == {i \in 1..Len(TurnOrder) : pc[TurnOrder[i]] = "idle"}
NextTurn == TurnOrder[CHOOSE i \in FreeTurns : \A j \in FreeTurns : i <= j]

\* The handler is suspended in `await websocket.receive_text()`.
AtReceive(c) == pc[c] = "recv" /\ Exhausted(c)

\* accept, register the connection, log_event("Chat client .. connected").
ChatConnect(c) ==
    /\ pc[c] = "idle"
    /\ sock' = [sock EXCEPT ![c] = "open"]
    /\ active_chat_connections' = RegisterWebsocket(active_chat_connections, c)
    /\ log_event(c, Msg("chat_connected", Some(client_id(c)), None),
                 "FastAPI", 0, active_log_connections)
    /\ pc' = [pc EXCEPT ![c] = "recv"]
    /\ UNCHANGED <<active_log_connections, active_internal_chat_connections,
                   inbox, owner, consumed, final_response, otrace,
                   internal_chat, finalOutcome, backlog, regVars, extVars>>

\* receive_text returns the frame `data`.  json.loads and .get raise on
\* a frame that is no JSON object: only WebSocketDisconnect is caught, so
\* the handler ends with the exception and the connection stays
\* registered.  `if user_input:` guards everything else.
ChatReceive(c, data) ==
    /\ AtReceive(c)
    /\ sock[c] = "open"
    /\ message_data' = [message_data EXCEPT ![c] =
           IF data.json = "invalid" THEN @ ELSE Some(data)]
    /\ IF FrameRaises(data) # ""
       THEN /\ pc' = [pc EXCEPT ![c] = FrameRaises(data)]
            /\ iter' = [iter EXCEPT ![c] = NoIter]
            /\ UNCHANGED <<log_buffer, published>>
       ELSE IF message_get(data) # ""
       THEN /\ FreeTurns # {}
            /\ log_event(c, Msg("user_input", Some(message_get(data)), None),
                         "FastAPI", 0, active_log_connections)
            /\ pc' = [pc EXCEPT ![c] = "input"]
       ELSE /\ iter' = [iter EXCEPT ![c] = NoIter]
            /\ UNCHANGED <<log_buffer, published, pc>>
    /\ UNCHANGED <<active_log_connections, active_internal_chat_connections,
                   active_chat_connections, sock, inbox, owner, consumed,
                   final_response, otrace, internal_chat, finalOutcome,
                   backlog, regVars, apiVars, wsVars, sse, fn_call, edVars,
                   chat_agent_name>>

\* log_event has returned.  `if sly_data: chat_request["sly_data"] =
\* json.loads(sly_data)`: an exception of json.loads ends the handler
\* before any task is created.  Otherwise
\* asyncio.create_task(self.handle_streaming_chat(..)), then loop to receive.
ChatSpawn(c) ==
    /\ pc[c] = "input"
    /\ Exhausted(c)
    /\ LET sly_data == message_data[c][1].sly_data
       IN  IF JsonTruthy(sly_data) /\ SlyDataLoadsRaises(sly_data) # ""
           THEN /\ pc' = [pc EXCEPT ![c] = SlyDataLoadsRaises(sly_data)]
                /\ UNCHANGED owner
           ELSE /\ pc' = [pc EXCEPT ![c] = "recv", ![NextTurn] = "start"]
                /\ owner' = [owner EXCEPT ![NextTurn] = client_id(c)]
    /\ iter' = [iter EXCEPT ![c] = NoIter]
    /\ UNCHANGED <<log_buffer, active_log_connections,
                   active_internal_chat_connections, active_chat_connections,
                   sock, inbox, consumed, final_response, otrace,
                   internal_chat, finalOutcome, published, backlog, regVars, extVars>>

\* receive_text raises WebSocketDisconnect: log_event("..disconnected.").
ChatDisconnect(c) ==
    /\ AtReceive(c)
    /\ sock[c] = "closed"
    /\ log_event(c, Msg("chat_disconnected", Some(client_id(c)), None),
                 "FastAPI", 0, active_log_connections)
    /\ pc' = [pc EXCEPT ![c] = "disconnecting"]
    /\ UNCHANGED <<active_log_connections, active_internal_chat_connections,
                   active_chat_connections, sock, inbox, owner, consumed,
                   final_response, otrace, internal_chat, finalOutcome,
                   backlog, regVars, extVars>>

\* (mutant of ChatCleanup: the handler also cancels the turns it started)
ChatCleanup_Cancel(c) ==
    /\ pc[c] = "disconnecting"
    /\ Exhausted(c)
    /\ active_chat_connections' = Pop(active_chat_connections, client_id(c))
    /\ pc' = [t \in Tasks |->
                 IF t = c THEN "closed"
                 ELSE IF t \in Turns /\ owner[t] = c
                         /\ pc[t] \in {"start", "loop", "logging", "send"}
                      THEN "done" ELSE pc[t]]
    /\ iter' = [t \in Tasks |->
                   IF t = c \/ (t \in Turns /\ owner[t] = c) THEN NoIter
                   ELSE iter[t]]
    /\ UNCHANGED <<log_buffer, active_log_connections,
                   active_internal_chat_connections, sock, inbox, owner,
                   consumed, final_response, otrace, internal_chat,
                   finalOutcome, published, backlog, regVars, extVars>>

\* self.active_chat_connections.pop(client_id, None); the handler returns.
ChatCleanup(c) ==
    /\ pc[c] = "disconnecting"
    /\ Exhausted(c)
    /\ active_chat_connections' = Pop(active_chat_connections, client_id(c))
    /\ pc' = [pc EXCEPT ![c] = "closed"]
    /\ iter' = [iter EXCEPT ![c] = NoIter]
    /\ UNCHANGED <<log_buffer, active_log_connections,
                   active_internal_chat_connections, sock, inbox, owner,
                   consumed, final_response, otrace, internal_chat,
                   finalOutcome, published, backlog, regVars, extVars>>

\* The handler of websocket c has ended, by its cleanup or by an
\* exception: from here on c stands for a later websocket of the same
\* client, which connects.  The websocket that ended is another object:
\* a send_text still outstanding on it stays a call on that closed
\* object (EarlierWebsocket), never a send to the one that connects now.
\* (A websocket that connects while the earlier one of its client is
\* being served is another element of ChatSockets.)
ChatReconnect(c) ==
    /\ pc[c] \in {"closed"} \cup Raised
    /\ published < MaxBufferPublishes
    /\ sock' = [s \in Sockets |->
                   IF s = c THEN "open"
                   ELSE IF s = EarlierWebsocket THEN "closed"
                   ELSE sock[s]]
    /\ send_socket' = [t \in Turns \cup Backgrounds |->
                          IF send_socket[t] = Some(c)
                          THEN Some(EarlierWebsocket)
                          ELSE send_socket[t]]
    /\ active_chat_connections' = RegisterWebsocket(active_chat_connections, c)
    /\ log_event(c, Msg("chat_connected", Some(client_id(c)), None),
                 "FastAPI", 0, active_log_connections)
    /\ pc' = [pc EXCEPT ![c] = "recv"]
    /\ UNCHANGED <<active_log_connections, active_internal_chat_connections,
                   inbox, owner, consumed, final_response, otrace,
                   internal_chat, finalOutcome, backlog, regVars, apiVars,
                   user_sessions, last_response, response_chunk, sse,
                   fn_call, edVars, handlerVars>>

\* ------------------------------------------------ handle_streaming_chat

\* (mutant of NextFinalResponse: the first AI text is kept)
NextFinalResponse_KeepFirst(m, fr) ==
    IF m.type = "AI" /\ fr = None THEN Some(m.text) ELSE fr

\* if response.get("type") == "AI": final_response = response["text"]
NextFinalResponse(m, fr) == IF m.type = "AI" THEN Some(m.text) ELSE fr

\* [i.get("tool") for i in origin]
ToolNames(origin) == [i \in 1..Len(origin) |-> origin[i].tool]

TraceTypes == {"AGENT", "AGENT_TOOL_RESULT"}

\* (mutant of NextOtrace: the first origin trace of the turn is kept)
NextOtrace_KeepFirst(m, ot) ==
    IF m.type \in TraceTypes /\ ot = None THEN Some(ToolNames(m.origin)) ELSE ot

\* if type in ["AGENT", "AGENT_TOOL_RESULT"]: otrace = [tool names of origin]
NextOtrace(m, ot) ==
    IF m.type \in TraceTypes THEN Some(ToolNames(m.origin)) ELSE ot

\* ... and internal_chat = response.get("text", "")
NextInternalChat(m, ic) == IF m.type \in TraceTypes THEN Some(m.text) ELSE ic

\* run_in_executor returned the response generator; locals start as None.
TurnStart(t) ==
    /\ pc[t] = "start"
    /\ pc' = [pc EXCEPT ![t] = "loop"]
    /\ final_response' = [final_response EXCEPT ![t] = None]
    /\ otrace' = [otrace EXCEPT ![t] = None]
    /\ internal_chat' = [internal_chat EXCEPT ![t] = None]
    /\ UNCHANGED <<log_buffer, active_log_connections,
                   active_internal_chat_connections, active_chat_connections,
                   sock, inbox, iter, owner, consumed, finalOutcome,
                   published, backlog, regVars, extVars>>

\* The generator yields m: classify it, then `await self.log_event(otrace)`.
TurnNext(t, m, limit) ==
    /\ pc[t] = "loop"
    /\ Exhausted(t)
    /\ Len(consumed[t]) < limit
    /\ consumed' = [consumed EXCEPT ![t] = Append(@, m)]
    /\ final_response' = [final_response EXCEPT ![t] = NextFinalResponse(m, @)]
    /\ otrace' = [otrace EXCEPT ![t] = NextOtrace(m, @)]
    /\ internal_chat' = [internal_chat EXCEPT ![t] = NextInternalChat(m, @)]
    /\ log_event(t, Msg("otrace", None, otrace'[t]), "NeuroSan",
                 Len(consumed[t]) + 1, active_log_connections)
    /\ pc' = [pc EXCEPT ![t] = "logging"]
    /\ UNCHANGED <<active_log_connections, active_internal_chat_connections,
                   active_chat_connections, sock, inbox, owner, finalOutcome,
                   backlog, regVars, extVars>>

\* `await self.internal_chat_event({"otrace": otrace, "text": internal_chat})`
TurnInternalChat(t) ==
    /\ pc[t] = "logging"
    /\ Exhausted(t)
    /\ internal_chat_event(t, Msg("trace", internal_chat[t], otrace[t]),
                           Len(consumed[t]), active_internal_chat_connections)
    /\ pc' = [pc EXCEPT ![t] = "loop"]
    /\ UNCHANGED <<log_buffer, active_log_connections,
                   active_internal_chat_connections, active_chat_connections,
                   sock, inbox, owner, consumed, final_response, otrace,
                   internal_chat, finalOutcome, published, backlog, regVars, extVars>>

\* The generator is exhausted:
\* `if final_response and client_id in self.active_chat_connections:`
\* calls send_text on the websocket registered now.
TurnComplete(t) ==
    /\ pc[t] = "loop"
    /\ Exhausted(t)
    /\ IF /\ Truthy(final_response[t])
          /\ Registered(active_chat_connections, owner[t])
       THEN /\ send_socket' = [send_socket EXCEPT ![t] =
                   Some(RegisteredSocket(active_chat_connections, owner[t]))]
            /\ pc' = [pc EXCEPT ![t] = "send"]
            /\ iter' = [iter EXCEPT ![t] = NoIter]
            /\ finalOutcome' = [finalOutcome EXCEPT ![t] = "attempt"]
            /\ UNCHANGED <<log_buffer, published>>
       ELSE /\ log_event(t, Msg("finished", Some(owner[t]), None), "FastAPI",
                         0, active_log_connections)
            /\ pc' = [pc EXCEPT ![t] = "finishing"]
            /\ finalOutcome' = [finalOutcome EXCEPT ![t] =
                   IF Truthy(final_response[t]) THEN "discarded" ELSE "none"]
            /\ UNCHANGED send_socket
    /\ UNCHANGED <<active_log_connections, active_internal_chat_connections,
                   active_chat_connections, sock, inbox, owner, consumed,
                   final_response, otrace, internal_chat, backlog, regVars,
                   apiVars, user_sessions, last_response, response_chunk, sse,
                   fn_call, edVars, handlerVars>>

\* `await self.active_chat_connections[client_id].send_text(response_str)`
\* ends: delivered to the peer of the websocket it was called on, then
\* log_event("Streaming response sent"); or it raises WebSocketDisconnect
\* / RuntimeError, whatever websocket the client_id is registered with by
\* now is popped, and the code falls through to log_event("Streaming chat
\* finished").
TurnSendFinal(t) ==
    /\ pc[t] = "send"
    /\ sock[send_socket[t][1]] # "stalled"
    /\ IF sock[send_socket[t][1]] = "open"
       THEN /\ inbox' = [inbox EXCEPT ![send_socket[t][1]] =
                   Append(@, [id |-> 0,
                              message |-> Msg("AI", final_response[t], None),
                              source |-> "", task |-> t, n |-> 0])]
            /\ log_event(t, Msg("response_sent", final_response[t], None),
                         "FastAPI", 0, active_log_connections)
            /\ pc' = [pc EXCEPT ![t] = "sent"]
            /\ finalOutcome' = [finalOutcome EXCEPT ![t] = "sent"]
            /\ UNCHANGED active_chat_connections
       ELSE /\ active_chat_connections' =
                   Pop(active_chat_connections, owner[t])
            /\ log_event(t, Msg("finished", Some(owner[t]), None), "FastAPI",
                         0, active_log_connections)
            /\ pc' = [pc EXCEPT ![t] = "finishing"]
            /\ finalOutcome' = [finalOutcome EXCEPT ![t] = "failed"]
            /\ UNCHANGED inbox
    /\ send_socket' = [send_socket EXCEPT ![t] = None]
    /\ UNCHANGED <<active_log_connections, active_internal_chat_connections,
                   sock, owner, consumed, final_response, otrace,
                   internal_chat, backlog, regVars, apiVars, user_sessions,
                   last_response, response_chunk, sse, fn_call, edVars,
                   handlerVars>>

\* `await self.log_event("Streaming chat finished for client: ..")`
TurnFinish(t) ==
    /\ pc[t] = "sent"
    /\ Exhausted(t)
    /\ log_event(t, Msg("finished", Some(owner[t]), None), "FastAPI", 0,
                 active_log_connections)
    /\ pc' = [pc EXCEPT ![t] = "finishing"]
    /\ UNCHANGED <<active_log_connections, active_internal_chat_connections,
                   active_chat_connections, sock, inbox, owner, consumed,
                   final_response, otrace, internal_chat, finalOutcome,
                   backlog, regVars, extVars>>

\* handle_streaming_chat returns.
TurnDone(t) ==
    /\ pc[t] = "finishing"
    /\ Exhausted(t)
    /\ pc' = [pc EXCEPT ![t] = "done"]
    /\ iter' = [iter EXCEPT ![t] = NoIter]
    /\ UNCHANGED <<log_buffer, active_log_connections,
                   active_internal_chat_connections, active_chat_connections,
                   sock, inbox, owner, consumed, final_response, otrace,
                   internal_chat, finalOutcome, published, backlog, regVars, extVars>>

\* (mutant of TurnUpstreamError: the failed turn's log entries are
\* withdrawn from the buffer)
TurnUpstreamError_Rollback(t) ==
    /\ \/ pc[t] = "start"
       \/ pc[t] = "loop" /\ Exhausted(t)
    /\ pc' = [pc EXCEPT ![t] = "failed"]
    /\ iter' = [iter EXCEPT ![t] = NoIter]
    /\ log_buffer' = SelectSeq(log_buffer, LAMBDA e : e.task # t)
    /\ UNCHANGED <<active_log_connections,
                   active_internal_chat_connections, active_chat_connections,
                   sock, inbox, owner, consumed, final_response, otrace,
                   internal_chat, finalOutcome, published, backlog, regVars, extVars>>

\* streaming_chat or the generator raises: `except Exception` logs and the
\* coroutine returns.
TurnUpstreamError(t) ==
    /\ \/ pc[t] = "start"
       \/ pc[t] = "loop" /\ Exhausted(t)
    /\ pc' = [pc EXCEPT ![t] = "failed"]
    /\ iter' = [iter EXCEPT ![t] = NoIter]
    /\ UNCHANGED <<log_buffer, active_log_connections,
                   active_internal_chat_connections, active_chat_connections,
                   sock, inbox, owner, consumed, final_response, otrace,
                   internal_chat, finalOutcome, published, backlog, regVars, extVars>>

\* ---------------------------------------------------------- stream_logs

\* log_buffer[last_sent_index:]
SliceFrom(buf, i) == SubSeq(buf, i + 1, Len(buf))

\* GET /logs-stream: event_generator starts, last_sent_index =
\* len(log_buffer).  (backlog and at remember the buffer and the number of
\* events published at that moment.)
SseOpen ==
    /\ sse.state = "idle"
    /\ sse' = [state |-> "loop", last_sent_index |-> Len(log_buffer),
               new_logs |-> <<>>, sent |-> <<>>, backlog |-> log_buffer,
               at |-> published]
    /\ UNCHANGED <<busVars, regVars, apiVars, wsVars, fn_call, edVars, handlerVars>>

\* `while not await request.is_disconnected()` with the client still
\* there: `if last_sent_index < len(log_buffer)` take the slice and enter
\* the for loop; else sleep and come back.
SsePoll ==
    /\ sse.state = "loop"
    /\ sse' = IF sse.last_sent_index < Len(log_buffer)
              THEN [sse EXCEPT !.state = "for",
                               !.new_logs = SliceFrom(log_buffer,
                                                      sse.last_sent_index)]
              ELSE sse
    /\ UNCHANGED <<busVars, regVars, apiVars, wsVars, fn_call, edVars, handlerVars>>

\* `yield f"data: {json.dumps(log)}\n\n"`: the generator is suspended
\* until the response has written the event.
SseYield ==
    /\ sse.state = "for"
    /\ sse.new_logs # <<>>
    /\ sse' = [sse EXCEPT !.sent = Append(@, Head(sse.new_logs)),
                          !.new_logs = Tail(@)]
    /\ UNCHANGED <<busVars, regVars, apiVars, wsVars, fn_call, edVars, handlerVars>>

\* The for loop is over: last_sent_index = len(log_buffer); sleep.
SseAdvance ==
    /\ sse.state = "for"
    /\ sse.new_logs = <<>>
    /\ sse' = [sse EXCEPT !.state = "loop",
                          !.last_sent_index = Len(log_buffer)]
    /\ UNCHANGED <<busVars, regVars, apiVars, wsVars, fn_call, edVars, handlerVars>>

\* request.is_disconnected() is true: the generator returns.
SseDisconnected ==
    /\ sse.state = "loop"
    /\ sse' = [sse EXCEPT !.state = "closed"]
    /\ UNCHANGED <<busVars, regVars, apiVars, wsVars, fn_call, edVars, handlerVars>>

SseSteps == SseOpen \/ SsePoll \/ SseYield \/ SseAdvance \/ SseDisconnected

\* ------------------------------------------------------ get_logs_manager

ScopeKeys == {"global", "demo"}
Connections == {"k1", "k2", "k3"}

\* The instances WebsocketLogsManager(agent_name) has constructed so far.
AllCreated == UNION {created[k] : k \in ScopeKeys}

\* (mutant of get_logs_manager: no membership test, a new instance per call)
get_logs_manager_AlwaysNew(agent_name) ==
    [reg |-> [logs_managers EXCEPT ![agent_name] = Cardinality(AllCreated) + 1],
     made |-> {Cardinality(AllCreated) + 1}]

\* if agent_name not in _logs_managers: _logs_managers[agent_name] = new
\* return _logs_managers[agent_name]
get_logs_manager(agent_name) ==
    IF logs_managers[agent_name] = 0
    THEN [reg |-> [logs_managers EXCEPT ![agent_name] = Cardinality(AllCreated) + 1],
          made |-> {Cardinality(AllCreated) + 1}]
    ELSE [reg |-> logs_managers, made |-> {}]

\* NsGrpcServiceApi.__init__ of connection k: self.logs_manager = get_..(name)
GetLogsManager(k, agent_name) ==
    /\ lookups < MaxLookups
    /\ lookups' = lookups + 1
    /\ LET r == get_logs_manager(agent_name)
       IN  /\ logs_managers' = r.reg
           /\ created' = [created EXCEPT ![agent_name] = @ \cup r.made]
           /\ held' = [held EXCEPT ![k][agent_name] = r.reg[agent_name]]
    /\ UNCHANGED <<busVars, extVars>>

\* ------------------------------------- NsGrpcServiceApi (one per socket)

MaxApiTurns == 2
MaxApiMsgs == 2

\* Frames a connection sends at most.
MaxFrames == 3

\* message_data = json.loads(websocket_data): a dict with or without the
\* key "message".
ApiFrame(message) == JsonObject(message, None)

ApiFrames == {ApiFrame(Some("hello")), ApiFrame(Some("")), ApiFrame(None)}

\* A result_dict: `response` is None when the key is absent.
ApiResult(response) == [response |-> response]

ApiResponse(type, text, origin, ctx) ==
    [type |-> type, text |-> text, origin |-> origin, chat_context |-> ctx]

ApiMessages ==
    { ApiResult(Some(ApiResponse("AI", "A", <<>>, Some("ctx1")))),
      ApiResult(Some(ApiResponse("AI", "B", <<>>, Some("ctx2")))),
      ApiResult(Some(ApiResponse("AGENT", "routing",
                                 <<Tool("x"), Tool("y")>>, None))),
      ApiResult(None) }

\* final_response = internal_chat = otrace = None; result_dict is unbound.
NoApiTurn ==
    [final_response |-> None, otrace |-> None, internal_chat |-> None,
     result_dict |-> None, consumed |-> <<>>]

\* (mutant of formulate_chat_request: chat_context is always put in)
formulate_chat_request_Always(user_input, sly_data, ctx, chat_filter) ==
    [user_message |-> [type |-> "HUMAN", text |-> user_input],
     chat_context |-> Some(ctx),
     sly_data |-> IF sly_data # None /\ sly_data[1] # {}
                  THEN sly_data ELSE None,
     chat_filter |-> IF chat_filter # None /\ chat_filter[1] # {}
                     THEN chat_filter ELSE None]

\* formulate_chat_request: an optional part is put in the request only if
\* it is not empty (bool(chat_context); len(keys()) > 0 for the others).
\* A dict is modelled by its key set, chat_context by its token.
formulate_chat_request(user_input, sly_data, ctx, chat_filter) ==
    [user_message |-> [type |-> "HUMAN", text |-> user_input],
     chat_context |-> IF ctx # "" THEN Some(ctx) ELSE None,
     sly_data |-> IF sly_data # None /\ sly_data[1] # {}
                  THEN sly_data ELSE None,
     chat_filter |-> IF chat_filter # None /\ chat_filter[1] # {}
                     THEN chat_filter ELSE None]

\* result_dict.get("response", {}).get("chat_context", {})
get_chat_context(result_dict) ==
    IF result_dict.response = None THEN ""
    ELSE IF result_dict.response[1].chat_context = None THEN ""
         ELSE result_dict.response[1].chat_context[1]

\* (mutant of set_chat_context: the dict is shared by all the objects)
set_chat_context_Shared(k, ctx) == [j \in ApiConns |-> ctx]

\* self.chat_context = chat_context
set_chat_context(k, ctx) == [chat_context EXCEPT ![k] = ctx]

\* One call on self.logs_manager, as made by connection k.
ApiCall(k, call, n, payload) ==
    [call |-> call, turn |-> Len(api_requests[k]), n |-> n, payload |-> payload]

\* stream_chat_to_websocket returns: the turn is filed with how it ended.
ApiFiled(k, ending, stored) ==
    Append(api_done[k],
           [request |-> request_data[k][1], stream |-> api_turn[k].consumed,
            ending |-> ending, stored |-> stored])

\* handle_chat_websocket: accept, register, log_event("Chat client ..").
ApiConnect(k) ==
    /\ pc[k] = "idle"
    /\ sock' = [sock EXCEPT ![k] = "open"]
    /\ active_chat_connections' = active_chat_connections \cup {k}
    /\ api_published' = [api_published EXCEPT ![k] =
           Append(@, ApiCall(k, "log_event", 0, "connected"))]
    /\ pc' = [pc EXCEPT ![k] = "api_recv"]
    /\ UNCHANGED <<log_buffer, active_log_connections,
                   active_internal_chat_connections, inbox, iter, owner,
                   consumed, final_response, otrace, internal_chat,
                   finalOutcome, published, backlog, regVars, chat_context,
                   request_data, api_turn, api_requests, api_done, received, wsVars, sse, fn_call, edVars, handlerVars>>

\* receive_text returns the frame websocket_data.  json.loads and .get
\* raise on a frame that is no JSON object: only WebSocketDisconnect is
\* caught, the handler ends with the exception and the connection stays
\* registered.  `if user_input:` await log_event("WebSocket data: ..").
ApiReceive(k, websocket_data) ==
    /\ pc[k] = "api_recv"
    /\ sock[k] = "open"
    /\ Len(received[k]) < MaxFrames
    /\ received' = [received EXCEPT ![k] = Append(@, websocket_data)]
    /\ IF FrameRaises(websocket_data) # ""
       THEN /\ pc' = [pc EXCEPT ![k] = FrameRaises(websocket_data)]
            /\ UNCHANGED api_published
       ELSE IF message_get(websocket_data) # ""
       THEN /\ Len(api_requests[k]) < MaxApiTurns
            /\ api_published' = [api_published EXCEPT ![k] =
                   Append(@, [ApiCall(k, "log_event", 0, "input")
                              EXCEPT !.turn = @ + 1])]
            /\ pc' = [pc EXCEPT ![k] = "api_input"]
       ELSE UNCHANGED <<api_published, pc>>
    /\ UNCHANGED <<log_buffer, active_log_connections,
                   active_internal_chat_connections, active_chat_connections,
                   sock, inbox, iter, owner, consumed, final_response, otrace,
                   internal_chat, finalOutcome, published, backlog, regVars,
                   chat_context, request_data, api_requests, api_turn,
                   api_done, wsVars, sse, fn_call, edVars, handlerVars>>

\* The sly_data argument the handler passes: message_data.get("sly_data",
\* None), a dict being modelled by its key set.
SlyDataArgument(parsed) ==
    IF parsed.sly_data = None THEN None
    ELSE Some(parsed.sly_data[1].keys)

\* log_event has returned: sly_data = message_data.get("sly_data", None),
\* chat_context = self.chat_context, formulate_chat_request (whose
\* sly_data.keys() raises AttributeError on a sly_data that is no dict: the
\* handler ends with it), and enter stream_chat_to_websocket (awaited
\* inline) with its locals set to None.
ApiFormulate(k) ==
    /\ pc[k] = "api_input"
    /\ LET message_data_k == received[k][Len(received[k])]
           sly_data == message_data_k.sly_data
           r == formulate_chat_request(message_get(message_data_k),
                    SlyDataArgument(message_data_k), chat_context[k],
                    Some({"chat_filter_type"}))
       IN  IF sly_data # None /\ sly_data[1].type # "dict"
           THEN /\ pc' = [pc EXCEPT ![k] = "AttributeError"]
                /\ UNCHANGED <<request_data, api_requests, api_turn>>
           ELSE /\ request_data' = [request_data EXCEPT ![k] = Some(r)]
                /\ api_requests' = [api_requests EXCEPT ![k] = Append(@, r)]
                /\ api_turn' = [api_turn EXCEPT ![k] = NoApiTurn]
                /\ pc' = [pc EXCEPT ![k] = "api_stream"]
    /\ UNCHANGED <<log_buffer, active_log_connections,
                   active_internal_chat_connections, active_chat_connections,
                   sock, inbox, iter, owner, consumed, final_response, otrace,
                   internal_chat, finalOutcome, published, backlog, regVars,
                   chat_context, api_done, api_published, received, wsVars,
                   sse, fn_call, edVars, handlerVars>>

\* The locals after the classification of result_dict m (lines 182-190),
\* had no exception been raised.
ApiClassified(loc, m) ==
    LET r == m.response[1]
    IN  [final_response |-> IF m.response # None /\ r.type = "AI"
                            THEN Some(r.text) ELSE loc.final_response,
         otrace |-> IF m.response # None
                    THEN Some(ToolNames(r.origin)) ELSE loc.otrace,
         internal_chat |-> IF m.response # None /\ r.type \in TraceTypes
                           THEN Some(r.text) ELSE loc.internal_chat,
         result_dict |-> Some(m),
         consumed |-> Append(loc.consumed, m)]

\* One message of the stream.  result_dict["response"] at line 189 raises
\* KeyError when the key is absent: `except Exception` logs it and
\* stream_chat_to_websocket returns.  Otherwise await log_event(otrace).
ApiNext(k, m) ==
    /\ pc[k] = "api_stream"
    /\ Len(api_turn[k].consumed) < MaxApiMsgs
    /\ LET loc == ApiClassified(api_turn[k], m)
           n == Len(loc.consumed)
       IN  IF m.response = None
           THEN /\ api_done' = [api_done EXCEPT ![k] =
                       Append(@, [request |-> request_data[k][1],
                                  stream |-> loc.consumed,
                                  ending |-> "KeyError", stored |-> None])]
                /\ api_turn' = [api_turn EXCEPT ![k] = NoApiTurn]
                /\ pc' = [pc EXCEPT ![k] = "api_recv"]
                /\ UNCHANGED api_published
           ELSE /\ api_turn' = [api_turn EXCEPT ![k] = loc]
                /\ api_published' = [api_published EXCEPT ![k] =
                       Append(@, ApiCall(k, "log_event", n, loc.otrace))]
                /\ pc' = [pc EXCEPT ![k] = "api_logging"]
                /\ UNCHANGED api_done
    /\ UNCHANGED <<log_buffer, active_log_connections,
                   active_internal_chat_connections, active_chat_connections,
                   sock, inbox, iter, owner, consumed, final_response, otrace,
                   internal_chat, finalOutcome, published, backlog, regVars,
                   chat_context, request_data, api_requests, received, wsVars,
                   sse, fn_call, edVars, handlerVars>>

\* log_event has returned: await internal_chat_event({otrace, text}), and
\* then the next message of the stream.
ApiInternalChat(k) ==
    /\ pc[k] = "api_logging"
    /\ LET loc == api_turn[k]
       IN  api_published' = [api_published EXCEPT ![k] =
               Append(@, ApiCall(k, "internal_chat_event", Len(loc.consumed),
                                 <<loc.otrace, loc.internal_chat>>))]
    /\ pc' = [pc EXCEPT ![k] = "api_stream"]
    /\ UNCHANGED <<log_buffer, active_log_connections,
                   active_internal_chat_connections, active_chat_connections,
                   sock, inbox, iter, owner, consumed, final_response, otrace,
                   internal_chat, finalOutcome, published, backlog, regVars,
                   chat_context, request_data, api_turn, api_requests,
                   api_done, received, wsVars, sse, fn_call, edVars,
                   handlerVars>>

\* Lines 210-214: chat_context = self.get_chat_context(result_dict)
\* (UnboundLocalError when no message was read: `except Exception` logs it
\* and stream_chat_to_websocket returns), self.set_chat_context, await
\* log_event("Streaming chat finished ..").
ApiStoreContext(k) ==
    LET loc == api_turn[k]
        ctx == get_chat_context(loc.result_dict[1])
    IN  IF loc.result_dict = None
        THEN /\ api_done' = [api_done EXCEPT ![k] =
                    ApiFiled(k, "UnboundLocalError", None)]
             /\ api_turn' = [api_turn EXCEPT ![k] = NoApiTurn]
             /\ pc' = [pc EXCEPT ![k] = "api_recv"]
             /\ UNCHANGED <<chat_context, api_published>>
        ELSE /\ chat_context' = set_chat_context(k, ctx)
             /\ api_published' = [api_published EXCEPT ![k] =
                    Append(@, ApiCall(k, "log_event", 0, "finished"))]
             /\ pc' = [pc EXCEPT ![k] = "api_finishing"]
             /\ UNCHANGED <<api_done, api_turn>>

\* The stream is exhausted.  `if final_response:` await
\* websocket.send_text(response_str); else on to lines 210-214.
ApiComplete(k) ==
    /\ pc[k] = "api_stream"
    /\ IF Truthy(api_turn[k].final_response)
       THEN /\ pc' = [pc EXCEPT ![k] = "api_send"]
            /\ UNCHANGED <<chat_context, api_published, api_done, api_turn>>
       ELSE ApiStoreContext(k)
    /\ UNCHANGED <<log_buffer, active_log_connections,
                   active_internal_chat_connections, active_chat_connections,
                   sock, inbox, iter, owner, consumed, final_response, otrace,
                   internal_chat, finalOutcome, published, backlog, regVars,
                   request_data, api_requests, received, wsVars, sse, fn_call,
                   edVars, handlerVars>>

\* send_text returns (the frame is delivered): await log_event("Streaming
\* response sent: .."); or it raises WebSocketDisconnect: pop, and on to
\* lines 210-214.
ApiSendFinal(k) ==
    /\ pc[k] = "api_send"
    /\ sock[k] # "stalled"
    /\ IF sock[k] = "open"
       THEN /\ inbox' = [inbox EXCEPT ![k] =
                   Append(@, [id |-> 0,
                              message |-> Msg("AI", api_turn[k].final_response,
                                              None),
                              source |-> "", task |-> k,
                              n |-> Len(api_requests[k])])]
            /\ api_published' = [api_published EXCEPT ![k] =
                   Append(@, ApiCall(k, "log_event", 0, "sent"))]
            /\ pc' = [pc EXCEPT ![k] = "api_sent"]
            /\ UNCHANGED <<active_chat_connections, chat_context, api_done,
                           api_turn>>
       ELSE /\ active_chat_connections' = active_chat_connections \ {k}
            /\ ApiStoreContext(k)
            /\ UNCHANGED inbox
    /\ UNCHANGED <<log_buffer, active_log_connections,
                   active_internal_chat_connections, sock, iter, owner,
                   consumed, final_response, otrace, internal_chat,
                   finalOutcome, published, backlog, regVars, request_data,
                   api_requests, received, wsVars, sse, fn_call, edVars,
                   handlerVars>>

\* log_event("Streaming response sent: ..") has returned: lines 210-214.
ApiSent(k) ==
    /\ pc[k] = "api_sent"
    /\ ApiStoreContext(k)
    /\ UNCHANGED <<log_buffer, active_log_connections,
                   active_internal_chat_connections, active_chat_connections,
                   sock, inbox, iter, owner, consumed, final_response, otrace,
                   internal_chat, finalOutcome, published, backlog, regVars,
                   request_data, api_requests, received, wsVars, sse, fn_call,
                   edVars, handlerVars>>

\* log_event("Streaming chat finished ..") has returned, and
\* stream_chat_to_websocket with it: back to receive_text.
ApiFinish(k) ==
    /\ pc[k] = "api_finishing"
    /\ api_done' = [api_done EXCEPT ![k] =
           ApiFiled(k, "finished",
                    Some(get_chat_context(api_turn[k].result_dict[1])))]
    /\ api_turn' = [api_turn EXCEPT ![k] = NoApiTurn]
    /\ pc' = [pc EXCEPT ![k] = "api_recv"]
    /\ UNCHANGED <<log_buffer, active_log_connections,
                   active_internal_chat_connections, active_chat_connections,
                   sock, inbox, iter, owner, consumed, final_response, otrace,
                   internal_chat, finalOutcome, published, backlog, regVars,
                   chat_context, request_data, api_requests, api_published,
                   received, wsVars, sse, fn_call, edVars, handlerVars>>

\* (variant of ApiUpstreamError: the handler of the exception resets the
\* stored context)
ApiUpstreamError_ResetContext(k) ==
    /\ pc[k] = "api_stream"
    /\ api_done' = [api_done EXCEPT ![k] = ApiFiled(k, "upstream", None)]
    /\ api_turn' = [api_turn EXCEPT ![k] = NoApiTurn]
    /\ pc' = [pc EXCEPT ![k] = "api_recv"]
    /\ chat_context' = set_chat_context(k, "")
    /\ UNCHANGED <<log_buffer, active_log_connections,
                   active_internal_chat_connections, active_chat_connections,
                   sock, inbox, iter, owner, consumed, final_response, otrace,
                   internal_chat, finalOutcome, published, backlog, regVars,
                   request_data, api_requests, api_published,
                   received, wsVars, sse, fn_call, edVars, handlerVars>>

\* streaming_chat or the stream raises: `except Exception` logs it and
\* stream_chat_to_websocket returns.
ApiUpstreamError(k) ==
    /\ pc[k] = "api_stream"
    /\ api_done' = [api_done EXCEPT ![k] = ApiFiled(k, "upstream", None)]
    /\ api_turn' = [api_turn EXCEPT ![k] = NoApiTurn]
    /\ pc' = [pc EXCEPT ![k] = "api_recv"]
    /\ UNCHANGED <<log_buffer, active_log_connections,
                   active_internal_chat_connections, active_chat_connections,
                   sock, inbox, iter, owner, consumed, final_response, otrace,
                   internal_chat, finalOutcome, published, backlog, regVars,
                   chat_context, request_data, api_requests, api_published,
                   received, wsVars, sse, fn_call, edVars, handlerVars>>

\* receive_text raises WebSocketDisconnect: await log_event("WebSocket
\* chat client disconnected: ..").
ApiDisconnect(k) ==
    /\ pc[k] = "api_recv"
    /\ sock[k] = "closed"
    /\ api_published' = [api_published EXCEPT ![k] =
           Append(@, ApiCall(k, "log_event", 0, "disconnected"))]
    /\ pc' = [pc EXCEPT ![k] = "api_disconnecting"]
    /\ UNCHANGED <<log_buffer, active_log_connections,
                   active_internal_chat_connections, active_chat_connections,
                   sock, inbox, iter, owner, consumed, final_response, otrace,
                   internal_chat, finalOutcome, published, backlog, regVars,
                   chat_context, request_data, api_turn, api_requests,
                   api_done, received, wsVars, sse, fn_call, edVars,
                   handlerVars>>

\* log_event has returned: self.active_chat_connections.pop(client_id,
\* None); the handler returns.
ApiCleanup(k) ==
    /\ pc[k] = "api_disconnecting"
    /\ active_chat_connections' = active_chat_connections \ {k}
    /\ pc' = [pc EXCEPT ![k] = "api_closed"]
    /\ UNCHANGED <<log_buffer, active_log_connections,
                   active_internal_chat_connections, sock, inbox, iter, owner,
                   consumed, final_response, otrace, internal_chat,
                   finalOutcome, published, backlog, regVars, apiVars, wsVars,
                   sse, fn_call, edVars, handlerVars>>

\* Frames of an NsGrpcServiceApi connection: "hello" alone, with sly_data
\* {"login": "u"}, with sly_data "x", and text that is not JSON.
ApiTurnFrames ==
    { ApiFrame(Some("hello")),
      JsonObject(Some("hello"), Some(JsonDict({"login"}))),
      JsonObject(Some("hello"), Some(JsonStr(<<"x">>))),
      NotJson }

ApiStepsOn(conns, messages, frames) ==
    \E k \in conns :
        \/ ApiConnect(k)
        \/ \E f \in frames : ApiReceive(k, f)
        \/ ApiFormulate(k)
        \/ \E m \in messages : ApiNext(k, m)
        \/ ApiInternalChat(k)
        \/ ApiComplete(k)
        \/ ApiSendFinal(k)
        \/ ApiSent(k)
        \/ ApiFinish(k)
        \/ ApiUpstreamError(k)
        \/ ApiDisconnect(k)
        \/ ApiCleanup(k)

\* The same with every frame carrying a message and nothing else.
ApiSteps(conns, messages) ==
    ApiStepsOn(conns, messages, {ApiFrame(Some("hello"))})

\* ----------------------------- fast_websocket (module-level, sessions)

MaxChunks == 2

\* The agent_name of the path /chat/{agent_name}.
WsAgentNames == {"demo", "other"}

\* A user_sessions entry ("" is the session_id None).
Session(name, session_id) == [agent_name |-> name, session_id |-> session_id]

\* response_chunk values of the generator.
WsChunks == { [response |-> "r", session_id |-> "s1"],
              [response |-> "", session_id |-> "s1"] }

\* The frame the chat socket receives for a response.
WsFrame(t, text) ==
    [id |-> 0, message |-> Msg("response", text, None), source |-> "",
     task |-> t, n |-> Len(consumed[t])]

\* if not user_sessions[client_id]["session_id"]:
\*     user_sessions[client_id]["session_id"] = response_chunk.get("session_id")
\* The subscript raises KeyError when client_id is no key, and
\* response_chunk is unbound (chunk = None) when the generator was empty.
save_session_id(sessions, c, chunk) ==
    IF sessions[c] = None
    THEN [sessions |-> sessions, raised |-> "KeyError"]
    ELSE IF sessions[c][1].session_id = ""
    THEN IF chunk = None
         THEN [sessions |-> sessions, raised |-> "UnboundLocalError"]
         ELSE [sessions |-> [sessions EXCEPT ![c] =
                                Some(Session(sessions[c][1].agent_name,
                                             chunk[1].session_id))],
               raised |-> ""]
    ELSE [sessions |-> sessions, raised |-> ""]

\* websocket_chat: accept, register (in the place of whatever websocket
\* the client_id was registered with), log_event("Chat client ..
\* connected").
WsChatConnect(c, name) ==
    /\ pc[c] = "idle"
    /\ sock' = [sock EXCEPT ![c] = "open"]
    /\ active_chat_connections' = RegisterWebsocket(active_chat_connections, c)
    /\ chat_agent_name' = [chat_agent_name EXCEPT ![c] = name]
    /\ log_event(c, Msg("chat_connected", Some(client_id(c)), None),
                 "FastAPI", 0, active_log_connections)
    /\ pc' = [pc EXCEPT ![c] = "ws_accepted"]
    /\ UNCHANGED <<active_log_connections, active_internal_chat_connections,
                   inbox, owner, consumed, final_response, otrace,
                   internal_chat, finalOutcome, backlog, regVars, apiVars,
                   wsVars, sse, fn_call, edVars, message_data>>

\* if client_id not in user_sessions or
\*    user_sessions[client_id]["agent_name"] != agent_name:
\*     user_sessions[client_id] = {.., "session_id": None, "agent_name": ..}
WsSessionInit(c) ==
    /\ pc[c] = "ws_accepted"
    /\ Exhausted(c)
    /\ user_sessions' = [user_sessions EXCEPT ![client_id(c)] =
           IF @ = None \/ @[1].agent_name # chat_agent_name[c]
           THEN Some(Session(chat_agent_name[c], ""))
           ELSE @]
    /\ pc' = [pc EXCEPT ![c] = "ws_recv"]
    /\ iter' = [iter EXCEPT ![c] = NoIter]
    /\ UNCHANGED <<log_buffer, active_log_connections,
                   active_internal_chat_connections, active_chat_connections,
                   sock, inbox, owner, consumed, final_response, otrace,
                   internal_chat, finalOutcome, published, backlog, regVars,
                   apiVars, last_response, response_chunk, send_socket, sse,
                   fn_call, edVars, handlerVars>>

\* receive_text returns the frame `data`.  json.loads and .get raise on a
\* frame that is no JSON object: only WebSocketDisconnect is caught, the
\* handler ends with the exception.  `if user_input:` log_event("User
\* input: ..").
WsChatReceive(c, data) ==
    /\ pc[c] = "ws_recv"
    /\ Exhausted(c)
    /\ sock[c] = "open"
    /\ message_data' = [message_data EXCEPT ![c] =
           IF data.json = "invalid" THEN @ ELSE Some(data)]
    /\ IF FrameRaises(data) # ""
       THEN /\ pc' = [pc EXCEPT ![c] = FrameRaises(data)]
            /\ iter' = [iter EXCEPT ![c] = NoIter]
            /\ UNCHANGED <<log_buffer, published>>
       ELSE IF message_get(data) # ""
       THEN /\ Cardinality(FreeTurns) >
                   Cardinality({d \in ChatSockets : pc[d] = "ws_input"})
            /\ log_event(c, Msg("user_input", Some(message_get(data)), None),
                         "FastAPI", 0, active_log_connections)
            /\ pc' = [pc EXCEPT ![c] = "ws_input"]
       ELSE /\ iter' = [iter EXCEPT ![c] = NoIter]
            /\ UNCHANGED <<log_buffer, published, pc>>
    /\ UNCHANGED <<active_log_connections, active_internal_chat_connections,
                   active_chat_connections, sock, inbox, owner, consumed,
                   final_response, otrace, internal_chat, finalOutcome,
                   backlog, regVars, apiVars, wsVars, sse, fn_call, edVars,
                   chat_agent_name>>

\* log_event has returned.  chat_request reads
\* user_sessions[client_id]["session_id"], a KeyError when another
\* handler of the client_id has popped the entry; `if sly_data:
\* chat_request["sly_data"] = json.loads(sly_data)`: either exception
\* ends the handler before any task is created.  Otherwise
\* asyncio.create_task(handle_streaming_chat(..)); back to receive_text.
WsChatSpawn(c) ==
    /\ pc[c] = "ws_input"
    /\ Exhausted(c)
    /\ LET sly_data == message_data[c][1].sly_data
       IN  IF user_sessions[client_id(c)] = None
           THEN /\ pc' = [pc EXCEPT ![c] = "KeyError"]
                /\ UNCHANGED owner
           ELSE IF JsonTruthy(sly_data) /\ SlyDataLoadsRaises(sly_data) # ""
           THEN /\ pc' = [pc EXCEPT ![c] = SlyDataLoadsRaises(sly_data)]
                /\ UNCHANGED owner
           ELSE /\ pc' = [pc EXCEPT ![c] = "ws_recv", ![NextTurn] = "ws_start"]
                /\ owner' = [owner EXCEPT ![NextTurn] = client_id(c)]
    /\ iter' = [iter EXCEPT ![c] = NoIter]
    /\ UNCHANGED <<log_buffer, active_log_connections,
                   active_internal_chat_connections, active_chat_connections,
                   sock, inbox, consumed, final_response, otrace,
                   internal_chat, finalOutcome, published, backlog, regVars,
                   extVars>>

\* receive_text raises WebSocketDisconnect: log_event("..disconnected.").
WsChatDisconnect(c) ==
    /\ pc[c] = "ws_recv"
    /\ Exhausted(c)
    /\ sock[c] = "closed"
    /\ log_event(c, Msg("chat_disconnected", Some(client_id(c)), None),
                 "FastAPI", 0, active_log_connections)
    /\ pc' = [pc EXCEPT ![c] = "ws_disconnecting"]
    /\ UNCHANGED <<active_log_connections, active_internal_chat_connections,
                   active_chat_connections, sock, inbox, owner, consumed,
                   final_response, otrace, internal_chat, finalOutcome,
                   backlog, regVars, extVars>>

\* active_chat_connections.pop(client_id, None);
\* user_sessions.pop(client_id, None); the handler returns.
WsChatCleanup(c) ==
    /\ pc[c] = "ws_disconnecting"
    /\ Exhausted(c)
    /\ active_chat_connections' = Pop(active_chat_connections, client_id(c))
    /\ user_sessions' = [user_sessions EXCEPT ![client_id(c)] = None]
    /\ pc' = [pc EXCEPT ![c] = "closed"]
    /\ iter' = [iter EXCEPT ![c] = NoIter]
    /\ UNCHANGED <<log_buffer, active_log_connections,
                   active_internal_chat_connections, sock, inbox, owner,
                   consumed, final_response, otrace, internal_chat,
                   finalOutcome, published, backlog, regVars, apiVars,
                   last_response, response_chunk, send_socket, sse, fn_call,
                   edVars, handlerVars>>

\* if not user_sessions[client_id]["session_id"]:
\*     user_sessions[client_id]["session_id"] = response_chunk.get(..)
\* A KeyError or UnboundLocalError it raises is caught by `except
\* Exception` and logged, and the task returns.
WsSaveSession(t) ==
    /\ LET r == save_session_id(user_sessions, owner[t], response_chunk[t])
       IN  /\ user_sessions' = r.sessions
           /\ finalOutcome' = [finalOutcome EXCEPT ![t] =
                  IF r.raised = "" THEN "saved" ELSE r.raised]
    /\ pc' = [pc EXCEPT ![t] = "ws_done"]

\* run_in_executor returned the generator; last_response = None.
WsTurnStart(t) ==
    /\ pc[t] = "ws_start"
    /\ pc' = [pc EXCEPT ![t] = "ws_loop"]
    /\ last_response' = [last_response EXCEPT ![t] = None]
    /\ response_chunk' = [response_chunk EXCEPT ![t] = None]
    /\ UNCHANGED <<log_buffer, active_log_connections,
                   active_internal_chat_connections, active_chat_connections,
                   sock, inbox, iter, owner, consumed, final_response, otrace,
                   internal_chat, finalOutcome, published, backlog, regVars,
                   apiVars, user_sessions, send_socket, sse, fn_call, edVars,
                   handlerVars>>

\* `for response_chunk in response_generator` takes one chunk: `if
\* chat_response:` remember it and, `if client_id in
\* active_chat_connections`, call send_text on the socket registered now.
WsTurnNext(t, chunk, limit) ==
    /\ pc[t] = "ws_loop"
    /\ Exhausted(t)
    /\ Len(consumed[t]) < limit
    /\ consumed' = [consumed EXCEPT ![t] = Append(@, chunk)]
    /\ response_chunk' = [response_chunk EXCEPT ![t] = Some(chunk)]
    /\ IF chunk.response # ""
       THEN /\ last_response' = [last_response EXCEPT ![t] = Some(chunk.response)]
            /\ IF Registered(active_chat_connections, owner[t])
               THEN /\ send_socket' = [send_socket EXCEPT ![t] =
                           Some(RegisteredSocket(active_chat_connections,
                                                 owner[t]))]
                    /\ pc' = [pc EXCEPT ![t] = "ws_send"]
               ELSE UNCHANGED <<send_socket, pc>>
       ELSE UNCHANGED <<last_response, send_socket, pc>>
    /\ iter' = [iter EXCEPT ![t] = NoIter]
    /\ UNCHANGED <<log_buffer, active_log_connections,
                   active_internal_chat_connections, active_chat_connections,
                   sock, inbox, owner, final_response, otrace, internal_chat,
                   finalOutcome, published, backlog, regVars, apiVars,
                   user_sessions, sse, fn_call, edVars, handlerVars>>

\* send_text of the chunk ends: delivered to the peer of the websocket it
\* was called on, then log_event("Streaming response sent: .."); or
\* WebSocketDisconnect, and active_chat_connections.pop(client_id, None)
\* removes whatever websocket is registered for the client_id by now.
\* Back to the for loop.
WsTurnSent(t) ==
    /\ pc[t] = "ws_send"
    /\ sock[send_socket[t][1]] # "stalled"
    /\ IF sock[send_socket[t][1]] = "open"
       THEN /\ inbox' = [inbox EXCEPT ![send_socket[t][1]] =
                   Append(@, WsFrame(t, last_response[t]))]
            /\ log_event(t, Msg("response_sent", last_response[t], None),
                         "FastAPI", 0, active_log_connections)
            /\ UNCHANGED active_chat_connections
       ELSE /\ active_chat_connections' =
                   Pop(active_chat_connections, owner[t])
            /\ iter' = [iter EXCEPT ![t] = NoIter]
            /\ UNCHANGED <<inbox, log_buffer, published>>
    /\ send_socket' = [send_socket EXCEPT ![t] = None]
    /\ pc' = [pc EXCEPT ![t] = "ws_loop"]
    /\ UNCHANGED <<active_log_connections, active_internal_chat_connections,
                   sock, owner, consumed, final_response, otrace,
                   internal_chat, finalOutcome, backlog, regVars, apiVars,
                   user_sessions, last_response, response_chunk, sse, fn_call,
                   edVars, handlerVars>>

\* The generator is exhausted: ensure_final_broadcast(), `if last_response
\* and client_id in active_chat_connections` calls send_text on the socket
\* registered now; otherwise the session id is saved at once.
WsTurnFinal(t) ==
    /\ pc[t] = "ws_loop"
    /\ Exhausted(t)
    /\ IF /\ Truthy(last_response[t])
          /\ Registered(active_chat_connections, owner[t])
       THEN /\ send_socket' = [send_socket EXCEPT ![t] =
                   Some(RegisteredSocket(active_chat_connections, owner[t]))]
            /\ pc' = [pc EXCEPT ![t] = "ws_final_send"]
            /\ UNCHANGED <<user_sessions, finalOutcome>>
       ELSE /\ WsSaveSession(t)
            /\ UNCHANGED send_socket
    /\ iter' = [iter EXCEPT ![t] = NoIter]
    /\ UNCHANGED <<log_buffer, active_log_connections,
                   active_internal_chat_connections, active_chat_connections,
                   sock, inbox, owner, consumed, final_response, otrace,
                   internal_chat, published, backlog, regVars, apiVars,
                   last_response, response_chunk, sse, fn_call, edVars,
                   handlerVars>>

\* send_text of ensure_final_broadcast ends: delivered, then
\* log_event("Final response sent: .."); or WebSocketDisconnect, pop, and
\* the session id is saved with no await in between.
WsTurnFinalSent(t) ==
    /\ pc[t] = "ws_final_send"
    /\ sock[send_socket[t][1]] # "stalled"
    /\ IF sock[send_socket[t][1]] = "open"
       THEN /\ inbox' = [inbox EXCEPT ![send_socket[t][1]] =
                   Append(@, WsFrame(t, last_response[t]))]
            /\ log_event(t, Msg("final_sent", last_response[t], None),
                         "FastAPI", 0, active_log_connections)
            /\ pc' = [pc EXCEPT ![t] = "ws_saving"]
            /\ UNCHANGED <<active_chat_connections, user_sessions,
                           finalOutcome>>
       ELSE /\ active_chat_connections' =
                   Pop(active_chat_connections, owner[t])
            /\ WsSaveSession(t)
            /\ iter' = [iter EXCEPT ![t] = NoIter]
            /\ UNCHANGED <<inbox, log_buffer, published>>
    /\ send_socket' = [send_socket EXCEPT ![t] = None]
    /\ UNCHANGED <<active_log_connections, active_internal_chat_connections,
                   sock, owner, consumed, final_response, otrace,
                   internal_chat, backlog, regVars, apiVars, last_response,
                   response_chunk, sse, fn_call, edVars, handlerVars>>

\* log_event("Final response sent") has returned: the session id is saved.
WsTurnSave(t) ==
    /\ pc[t] = "ws_saving"
    /\ Exhausted(t)
    /\ WsSaveSession(t)
    /\ iter' = [iter EXCEPT ![t] = NoIter]
    /\ UNCHANGED <<log_buffer, active_log_connections,
                   active_internal_chat_connections, active_chat_connections,
                   sock, inbox, owner, consumed, final_response, otrace,
                   internal_chat, published, backlog, regVars, apiVars,
                   last_response, response_chunk, send_socket, sse, fn_call,
                   edVars, handlerVars>>

\* streaming_chat or the generator raises: `except Exception` logs it.
WsTurnUpstreamError(t) ==
    /\ \/ pc[t] = "ws_start"
       \/ pc[t] = "ws_loop" /\ Exhausted(t)
    /\ pc' = [pc EXCEPT ![t] = "ws_done"]
    /\ finalOutcome' = [finalOutcome EXCEPT ![t] = "upstream"]
    /\ iter' = [iter EXCEPT ![t] = NoIter]
    /\ UNCHANGED <<log_buffer, active_log_connections,
                   active_internal_chat_connections, active_chat_connections,
                   sock, inbox, owner, consumed, final_response, otrace,
                   internal_chat, published, backlog, regVars, extVars>>

\* background_response_handler(client_id):
\* `if client_id not in user_sessions:` warn and return; else read the
\* session and start polling.
BgStart(b) ==
    /\ pc[b] = "idle"
    /\ pc' = [pc EXCEPT ![b] =
           IF user_sessions[BgClient] = None THEN "bg_returned" ELSE "bg_poll"]
    /\ UNCHANGED <<log_buffer, active_log_connections,
                   active_internal_chat_connections, active_chat_connections,
                   sock, inbox, iter, owner, consumed, final_response, otrace,
                   internal_chat, finalOutcome, published, backlog, regVars,
                   extVars>>

\* A poll of agent_session.logs that holds a new log line (the model has
\* one such poll): log_event(log).
BgPollLog(b) ==
    /\ pc[b] = "bg_poll"
    /\ log_event(b, Msg("neuro_san_log", None, None), "Neuro-SAN", 0,
                 active_log_connections)
    /\ pc' = [pc EXCEPT ![b] = "bg_logged"]
    /\ UNCHANGED <<active_log_connections, active_internal_chat_connections,
                   active_chat_connections, sock, inbox, owner, consumed,
                   final_response, otrace, internal_chat, finalOutcome,
                   backlog, regVars, extVars>>

\* The poll holds a chat_response: `if client_id in
\* active_chat_connections:` call send_text on the socket registered now.
\* (A poll that finds the client not registered sleeps and polls again.)
BgRespond(b) ==
    /\ pc[b] \in {"bg_poll", "bg_logged"}
    /\ Exhausted(b)
    /\ Registered(active_chat_connections, BgClient)
    /\ send_socket' = [send_socket EXCEPT ![b] =
           Some(RegisteredSocket(active_chat_connections, BgClient))]
    /\ pc' = [pc EXCEPT ![b] = "bg_send"]
    /\ iter' = [iter EXCEPT ![b] = NoIter]
    /\ UNCHANGED <<log_buffer, active_log_connections,
                   active_internal_chat_connections, active_chat_connections,
                   sock, inbox, owner, consumed, final_response, otrace,
                   internal_chat, finalOutcome, published, backlog, regVars,
                   apiVars, user_sessions, last_response, response_chunk, sse,
                   fn_call, edVars, handlerVars>>

\* send_text ends: delivered, response_sent = True and break; or
\* WebSocketDisconnect, pop, sleep and poll again (the later polls of the
\* model hold no new log line).
BgSent(b) ==
    /\ pc[b] = "bg_send"
    /\ sock[send_socket[b][1]] # "stalled"
    /\ IF sock[send_socket[b][1]] = "open"
       THEN /\ inbox' = [inbox EXCEPT ![send_socket[b][1]] =
                   Append(@, [id |-> 0,
                              message |-> Msg("response", Some("r"), None),
                              source |-> "", task |-> b, n |-> 0])]
            /\ pc' = [pc EXCEPT ![b] = "bg_done"]
            /\ UNCHANGED active_chat_connections
       ELSE /\ active_chat_connections' =
                   Pop(active_chat_connections, BgClient)
            /\ pc' = [pc EXCEPT ![b] = "bg_logged"]
            /\ UNCHANGED inbox
    /\ send_socket' = [send_socket EXCEPT ![b] = None]
    /\ UNCHANGED <<log_buffer, active_log_connections,
                   active_internal_chat_connections, sock, iter, owner,
                   consumed, final_response, otrace, internal_chat,
                   finalOutcome, published, backlog, regVars, apiVars,
                   user_sessions, last_response, response_chunk, sse, fn_call,
                   edVars, handlerVars>>

WsChatSteps(clients, frames) ==
    \E c \in clients :
        \/ WsChatConnect(c, "demo")
        \/ WsSessionInit(c)
        \/ \E data \in frames : WsChatReceive(c, data)
        \/ WsChatSpawn(c)
        \/ WsChatDisconnect(c)
        \/ WsChatCleanup(c)

WsTurnStepsOn(turns, chunks, limit) ==
    \E t \in turns :
        \/ WsTurnStart(t)
        \/ \E chunk \in chunks : WsTurnNext(t, chunk, limit)
        \/ WsTurnSent(t)
        \/ WsTurnFinal(t)
        \/ WsTurnFinalSent(t)
        \/ WsTurnSave(t)
        \/ WsTurnUpstreamError(t)

\* The same with the generator yielding any of WsChunks.
WsTurnSteps(turns) == WsTurnStepsOn(turns, WsChunks, MaxChunks)

BgSteps(bs) ==
    \E b \in bs : BgStart(b) \/ BgPollLog(b) \/ BgRespond(b) \/ BgSent(b)

\* ------------------------------------------------------- specifications

\* No utility function is being called.
NoCall == [fn |-> "", args |-> <<>>, result |-> None]

\* No request of /logs-stream yet.
NoSse == [state |-> "idle", last_sent_index |-> 0, new_logs |-> <<>>,
          sent |-> <<>>, backlog |-> <<>>, at |-> 0]

\* ------------------------------------------------------- editor state

\* StateRegistry after class creation: no manager, no network.
InitStateRegistry ==
    /\ _managers = {}
    /\ _network_to_keys = <<>>

\* SimpleStateRegistry.__init__: three empty dicts; no call made yet.
InitSimpleStateRegistry ==
    /\ _registry_instance = [managers |-> {}, network_to_design_ids |-> <<>>,
                             design_id_to_info |-> <<>>]
    /\ copilot_loads = <<>>
    /\ uuids = {}

\* StateManager.__init__: no state, no subscriber, the lock free; the
\* thread is in no call.
InitStateManager ==
    /\ state_manager = [network_states |-> <<>>, subscribers |-> <<>>,
                        state_lock |-> "free"]
    /\ sm_thread = [stack |-> <<>>, notified |-> <<>>, calls |-> 0,
                    returned |-> 0]

\* No call of build_nodes_and_edges is in hand.
NoBuild == [step |-> "idle", origin_to_tools |-> <<>>, origins |-> <<>>,
            all_nodes |-> {}, parent_map |-> <<>>, depth_map |-> <<>>,
            stack |-> <<>>, current |-> None]

\* No request has been made to the editor's endpoints.
NoResponse == [endpoint |-> "", status |-> 0]

\* AndEditor.__init__ on an empty registry directory.
InitAndEditor ==
    /\ network_files = <<>>
    /\ manifest = {}
    /\ editing_sessions = <<>>
    /\ http_response = NoResponse

\* ProcessLogTee.__init__: an empty tee file and console, a
\* JsonReassembler that collects nothing; handle_line has not raised.
NoTee == [file |-> <<>>, console |-> <<>>, buffer |-> <<>>, balance |-> 0,
          collecting |-> FALSE, closed |-> FALSE, raised |-> ""]

\* The child process has written nothing to its pipe.
NoPipe == [lines |-> <<>>, read |-> 0, exited |-> FALSE]

\* The editor's objects as construction leaves them.
InitEditor ==
    /\ InitStateRegistry
    /\ InitSimpleStateRegistry
    /\ InitStateManager
    /\ build = NoBuild
    /\ tee = NoTee
    /\ pipe = NoPipe

\* The state after construction, with the coroutines of `tasks` able to
\* run; the others never start (their sockets never connect).  It says
\* everything but the registry directory of the editor and the utility
\* call in hand.
InitBase(tasks) ==
    /\ log_buffer = <<>>
    /\ active_log_connections = <<>>
    /\ active_internal_chat_connections = <<>>
    /\ active_chat_connections = {}
    /\ sock = [s \in Sockets |-> "idle"]
    /\ inbox = [s \in Sockets |-> <<>>]
    /\ pc = [t \in Tasks |-> IF t \in tasks THEN "idle" ELSE "unused"]
    /\ iter = [t \in Tasks |-> NoIter]
    /\ owner = [t \in Turns |-> ""]
    /\ consumed = [t \in Turns |-> <<>>]
    /\ final_response = [t \in Turns |-> None]
    /\ otrace = [t \in Turns |-> None]
    /\ internal_chat = [t \in Turns |-> None]
    /\ finalOutcome = [t \in Turns |-> "pending"]
    /\ published = 0
    /\ backlog = [s \in LogSocks |-> <<>>]
    /\ logs_managers = [k \in ScopeKeys |-> 0]
    /\ created = [k \in ScopeKeys |-> {}]
    /\ held = [k \in Connections |-> [a \in ScopeKeys |-> 0]]
    /\ lookups = 0
    /\ chat_context = [k \in ApiConns |-> ""]
    /\ request_data = [k \in ApiConns |-> None]
    /\ api_turn = [k \in ApiConns |-> NoApiTurn]
    /\ api_requests = [k \in ApiConns |-> <<>>]
    /\ api_done = [k \in ApiConns |-> <<>>]
    /\ api_published = [k \in ApiConns |-> <<>>]
    /\ received = [k \in ApiConns |-> <<>>]
    /\ user_sessions = [c \in Clients |-> None]
    /\ last_response = [t \in Turns |-> None]
    /\ send_socket = [t \in Turns \cup Backgrounds |-> None]
    /\ response_chunk = [t \in Turns |-> None]
    /\ sse = NoSse
    /\ chat_agent_name = [c \in ChatSockets |-> ""]
    /\ message_data = [c \in ChatSockets |-> None]
    /\ InitEditor

\* The same on an empty registry directory.
InitOf(tasks) ==
    /\ InitBase(tasks)
    /\ InitAndEditor

\* The state after construction, the coroutines `tasks` not yet started.
InitWith(tasks) == InitOf(tasks) /\ fn_call = NoCall

\* The steps of the coroutines, by kind, over the sockets / turns given.
LogHandlerSteps(socks) == \E ws \in socks : LogConnect(ws) \/ LogSleep(ws)

InternalChatHandlerSteps(socks) ==
    \E ws \in socks : InternalChatConnect(ws) \/ InternalChatSleep(ws)

ChatLifecycleSteps(clients) ==
    \E c \in clients : ChatConnect(c) \/ ChatDisconnect(c) \/ ChatCleanup(c)

ChatTurnStepsOn(clients, frames) ==
    \E c \in clients :
        (\E data \in frames : ChatReceive(c, data)) \/ ChatSpawn(c)

ChatTurnSteps(clients) == ChatTurnStepsOn(clients, ChatFrames)

TurnSteps(turns, messages, limit) ==
    \E t \in turns :
        \/ TurnStart(t)
        \/ \E m \in messages : TurnNext(t, m, limit)
        \/ TurnInternalChat(t)
        \/ TurnComplete(t)
        \/ TurnSendFinal(t)
        \/ TurnFinish(t)
        \/ TurnDone(t)

TurnFailureSteps(turns) == \E t \in turns : TurnUpstreamError(t)

\* Spec: one chat connection issuing one turn over any stream of
\* UpstreamMessages, one internal-chat subscriber; any peer may close.
Init == InitWith({"I1", "c1", "t1"})

Next ==
    \/ InternalChatHandlerSteps({"I1"})
    \/ ChatLifecycleSteps({"c1"})
    \/ ChatTurnSteps({"c1"})
    \/ TurnSteps({"t1"}, UpstreamMessages, MaxMsgs)
    \/ TurnFailureSteps({"t1"})
    \/ \E t \in Tasks : BroadcastInternalChatStep(t)
    \/ \E ws \in {"I1", "c1"} : PeerClose(ws)

Spec == Init /\ [][Next]_vars

TraceMessages == {Upstream("AGENT", "routing", <<Tool("x"), Tool("y")>>)}

AnsweredMessages == TraceMessages \cup {Upstream("AI", "A", <<>>)}

\* SpecTrace: one turn of AGENT and AI messages observed by two
\* internal-chat subscribers that may connect and be closed at any time.
InitTrace == InitWith({"I1", "I2", "c1", "t1"})

NextTrace ==
    \/ InternalChatHandlerSteps({"I1", "I2"})
    \/ ChatConnect("c1")
    \/ ChatTurnStepsOn({"c1"}, {JsonObject(Some("hello"), None)})
    \/ TurnSteps({"t1"}, AnsweredMessages, MaxMsgs)
    \/ \E t \in Tasks : BroadcastInternalChatStep(t)
    \/ \E ws \in {"I1", "I2"} : PeerClose(ws)

SpecTrace == InitTrace /\ [][NextTrace]_vars

\* SpecLogs: two log subscribers that may connect and be closed at any
\* time while a chat connection comes and goes (each publishes log events).
InitLogs == InitWith({"L1", "L2", "c1"})

NextLogs ==
    \/ LogHandlerSteps({"L1", "L2"})
    \/ ChatLifecycleSteps({"c1"})
    \/ \E t \in Tasks : BroadcastLogStep(t)
    \/ \E ws \in {"L1", "L2", "c1"} : PeerClose(ws)

SpecLogs == InitLogs /\ [][NextLogs]_vars

\* SpecTurns: two turns of one chat connection running concurrently, one
\* log subscriber.
InitTurns == InitWith({"L1", "c1", "t1", "t2"})

NextTurns ==
    \/ LogHandlerSteps({"L1"})
    \/ ChatConnect("c1")
    \/ ChatTurnStepsOn({"c1"}, MessageFrames)
    \/ TurnSteps({"t1", "t2"}, {Upstream("AI", "A", <<>>)}, MaxConcurrentMsgs)
    \/ \E t \in Tasks : BroadcastLogStep(t)

SpecTurns == InitTurns /\ [][NextTurns]_vars

\* SpecBuffer: a chat connection that connects and disconnects again and
\* again (two log events per round) until more than LOG_BUFFER_SIZE events
\* were published, and one log subscriber that connects once the buffer is
\* full (no subscriber before) and may be closed at any time.
InitBuffer == InitWith({"L1", "c1"})

NextBuffer ==
    \/ published >= LOG_BUFFER_SIZE /\ LogConnect("L1")
    \/ LogSleep("L1")
    \/ ChatLifecycleSteps({"c1"})
    \/ ChatReconnect("c1")
    \/ \E t \in Tasks : BroadcastLogStep(t)
    \/ \E ws \in {"L1", "c1"} : PeerClose(ws)

SpecBuffer == InitBuffer /\ [][NextBuffer]_vars

\* SpecStall: two log subscribers either of which may stop draining, and a
\* chat connection whose coming and going publishes log events.  The event
\* loop runs every coroutine that is ready: weak fairness of each
\* coroutine's steps (the environment's steps are not fair).
InitStall == InitWith({"L1", "L2", "c1"})

CoroutineStep(t) ==
    \/ BroadcastLogStep(t)
    \/ t \in LogSocks /\ LogSleep(t)
    \/ t \in Clients /\ (ChatDisconnect(t) \/ ChatCleanup(t))

NextStall ==
    \/ LogHandlerSteps({"L1", "L2"})
    \/ ChatLifecycleSteps({"c1"})
    \/ \E t \in Tasks : BroadcastLogStep(t)
    \/ \E ws \in {"L1", "L2"} : PeerStall(ws)
    \/ PeerClose("c1")

SpecStall == InitStall /\ [][NextStall]_vars
                 /\ \A t \in {"L1", "L2", "c1"} : WF_vars(CoroutineStep(t))

\* SpecRegistry: connections constructing NsGrpcServiceApi objects, each
\* looking its scope's logs manager up.
InitRegistry == InitWith({})

NextRegistry == \E k \in Connections : \E a \in ScopeKeys : GetLogsManager(k, a)

SpecRegistry == InitRegistry /\ [][NextRegistry]_vars

\* SpecApi: one NsGrpcServiceApi connection taking up to MaxApiTurns turns
\* over any streams of ApiMessages; its peer may close at any time.
InitApi == InitWith({"a1"})

NextApi ==
    \/ ApiStepsOn({"a1"}, ApiMessages, ApiTurnFrames)
    \/ PeerClose("a1")

SpecApi == InitApi /\ [][NextApi]_vars

\* SpecSession: a fast_websocket chat client with its session and one
\* turn, whose generator yields chunks that carry a response, its peer
\* closing at any time; a second connection with the same
\* str(websocket.client), which comes at any time and stays; a client of
\* /logs; one call of background_response_handler on the client
\* identity's behalf, whose polls of agent_session.logs come back empty.
SessionFrames == {JsonObject(Some("hello"), None), NotJson}

SessionChunks == {[response |-> "r", session_id |-> "s1"]}

\* Longest stream of the turn of SpecSession.
MaxSessionChunks == 1

InitSession == InitWith({"c1", "c1b", "t1", "b1", "L1"})

NextSession ==
    \/ WsChatSteps({"c1"}, SessionFrames)
    \/ WsChatConnect("c1b", "demo") \/ WsSessionInit("c1b")
    \/ WsTurnStepsOn({"t1"}, SessionChunks, MaxSessionChunks)
    \/ BgStart("b1")
    \/ LogHandlerSteps({"L1"})
    \/ \E t \in Tasks : BroadcastLogStep(t)
    \/ PeerClose("c1")

SpecSession == InitSession /\ [][NextSession]_vars

\* SpecReconnect: two connections with the same str(websocket.client),
\* at the same time or one after the other, the second for either agent
\* of WsAgentNames, each ended by its peer closing or by a frame the
\* handler does not survive, or left with a peer that stops draining; one
\* turn and one call of background_response_handler on their behalf.
InitReconnect == InitWith({"c1", "c1b", "t1", "b1"})

NextReconnect ==
    \/ WsChatSteps({"c1", "c1b"}, SessionFrames)
    \/ WsChatConnect("c1b", "other")
    \/ WsTurnStepsOn({"t1"}, SessionChunks, MaxSessionChunks)
    \/ BgSteps({"b1"})
    \/ \E c \in {"c1", "c1b"} : PeerClose(c) \/ PeerStall(c)

SpecReconnect == InitReconnect /\ [][NextReconnect]_vars

\* SpecApiPair: two NsGrpcServiceApi objects, each built with its own
\* websocket, serving their connections at once.  The upstream of a1
\* answers with context ctx1, the upstream of a2 with ctx2.
ApiPairMessages(k) ==
    IF k = "a1"
    THEN { ApiResult(Some(ApiResponse("AI", "A", <<>>, Some("ctx1")))),
           ApiResult(Some(ApiResponse("AGENT", "routing",
                                      <<Tool("x"), Tool("y")>>, None))) }
    ELSE { ApiResult(Some(ApiResponse("AI", "B", <<>>, Some("ctx2")))) }

InitApiPair == InitWith(ApiConns)

NextApiPair ==
    \/ \E k \in ApiConns : ApiSteps({k}, ApiPairMessages(k))
    \/ PeerClose("a1")

SpecApiPair == InitApiPair /\ [][NextApiPair]_vars

\* SpecClose: one chat connection issuing one turn while an internal-chat
\* subscriber is listening; the chat peer may close at any time.  The
\* event loop runs every coroutine that is ready and the upstream stream
\* yields or ends: weak fairness of the turn's and the broadcasts' steps
\* (the peers' steps are not fair).
InitClose == InitWith({"I1", "c1", "t1"})

NextClose ==
    \/ InternalChatHandlerSteps({"I1"})
    \/ ChatLifecycleSteps({"c1"})
    \/ "I1" \in Range(active_internal_chat_connections) /\ ChatTurnSteps({"c1"})
    \/ TurnSteps({"t1"}, UpstreamMessages, MaxMsgs)
    \/ \E t \in Tasks : BroadcastInternalChatStep(t)
    \/ PeerClose("c1")

SpecClose == InitClose /\ [][NextClose]_vars
                 /\ WF_vars(TurnSteps({"t1"}, UpstreamMessages, MaxMsgs))
                 /\ \A t \in Tasks : WF_vars(BroadcastInternalChatStep(t))

\* SpecDetect: the scenario of Spec with the event loop running every
\* coroutine that is ready (weak fairness of the handlers', the turn's and
\* the broadcasts' steps; the peers' steps are not fair).
SpecDetect == Init /\ [][Next]_vars
                  /\ WF_vars(InternalChatHandlerSteps({"I1"}))
                  /\ WF_vars(ChatLifecycleSteps({"c1"}))
                  /\ WF_vars(TurnSteps({"t1"}, UpstreamMessages, MaxMsgs))
                  /\ \A t \in Tasks : WF_vars(BroadcastInternalChatStep(t))

\* SpecFail: one chat connection issuing two turns one after the other
\* while an internal-chat subscriber is listening; either turn's upstream
\* may fail before or between its messages.
InitFail == InitWith({"I1", "c1", "t1", "t2"})

NextFail ==
    \/ InternalChatHandlerSteps({"I1"})
    \/ ChatConnect("c1")
    \/ /\ "I1" \in Range(active_internal_chat_connections)
       /\ \A t \in Turns : pc[t] \in {"idle", "done", "failed"}
       /\ ChatTurnSteps({"c1"})
    \/ TurnSteps({"t1", "t2"}, AnsweredMessages, MaxMsgs)
    \/ TurnFailureSteps({"t1", "t2"})
    \/ \E t \in Tasks : BroadcastInternalChatStep(t)

SpecFail == InitFail /\ [][NextFail]_vars

\* SpecFrames: one NsGrpcServiceApi connection receiving up to MaxFrames
\* frames, with a message, with an empty one or with none.
InitFrames == InitWith({"a1"})

NextFrames ==
    \/ ApiStepsOn({"a1"}, ApiMessages, ApiFrames)
    \/ PeerClose("a1")

SpecFrames == InitFrames /\ [][NextFrames]_vars

\* The orders a finite set can be listed in, each element once.
Orderings(S) ==
    {q \in [1..Cardinality(S) -> S] :
         \A i, j \in 1..Len(q) : i # j => q[i] # q[j]}

\* SpecSse: one client of /logs-stream that may come at any time while
\* a fast_websocket chat connection and its turn publish into the
\* module's log_buffer.
InitSse == InitWith({"c1", "t1"})

NextSse ==
    \/ SseSteps
    \/ WsChatSteps({"c1"}, MessageFrames)
    \/ WsTurnSteps({"t1"})
    \/ PeerClose("c1")

SpecSse == InitSse /\ [][NextSse]_vars

\* ---------------------------------------------------------- get_version

\* Distribution names asked for, and the versions an installed one has.
PackageNames == {"nsflow", "neuro-san", "unknown_package"}
Versions == {"1.2.3", "0.5.11.dev15"}

\* The installed distributions: name -> None (not installed) | Some(version)
Environments == [PackageNames -> {None} \cup {Some(v) : v \in Versions}]

\* pkg_resources.get_distribution(package_name).version, or
\* DistributionNotFound raised.
get_distribution_version(installed, package_name) ==
    IF installed[package_name] = None
    THEN [raised |-> "DistributionNotFound", value |-> ""]
    ELSE [raised |-> "", value |-> installed[package_name][1]]

\* (mutant of get_version: the fallback is the same for every name)
get_version_NoDevVersion(installed, package_name) ==
    LET d == get_distribution_version(installed, package_name)
    IN  IF d.raised = "" THEN d
        ELSE [raised |-> "", value |-> "not found"]

\* get_version(package_name): the except branch returns "dev.version" for
\* nsflow and "not found" otherwise.
get_version(installed, package_name) ==
    LET d == get_distribution_version(installed, package_name)
    IN  IF d.raised = "" THEN d
        ELSE IF package_name = "nsflow"
             THEN [raised |-> "", value |-> "dev.version"]
             ELSE [raised |-> "", value |-> "not found"]

\* get_version is called and returns.
GetVersion ==
    /\ fn_call.fn = "get_version"
    /\ fn_call.result = None
    /\ fn_call' = [fn_call EXCEPT !.result =
           Some(get_version(fn_call.args[1], fn_call.args[2]))]
    /\ UNCHANGED <<busVars, regVars, apiVars, wsVars, sse, edVars, handlerVars>>

\* SpecVersion: get_version called with any name in any environment.
InitVersion ==
    /\ InitOf({})
    /\ \E installed \in Environments : \E package_name \in PackageNames :
           fn_call = [fn |-> "get_version",
                      args |-> <<installed, package_name>>, result |-> None]

NextVersion == GetVersion

SpecVersion == InitVersion /\ [][NextVersion]_vars

\* ------------------------------------------- extract_connectivity_info

\* Longest `tools` list of a network configuration.
MaxTools == 3

\* A tool of the configuration: each key is absent (None) or has a value.
ToolConfig(name, tools, class) ==
    [name |-> name, tools |-> tools, class |-> class]

ToolConfigs ==
    {ToolConfig(n, ts, c) :
        n \in {None, Some("a"), Some("b")},
        ts \in {None, Some(<<>>), Some(<<"b">>)},
        c \in {None, Some("mod.A")}}

NetworkConfigs == UNION {[1..n -> ToolConfigs] : n \in 0..MaxTools}

\* tool_name = tool.get("name", "unknown_tool")
tool_name_of(tool) == IF tool.name = None THEN "unknown_tool" ELSE tool.name[1]

\* (mutant of ConnectivityEntry: the class never replaces the name)
ConnectivityEntry_NameOnly(tool) ==
    [origin |-> tool_name_of(tool),
     tools |-> IF tool.tools # None /\ tool.tools[1] # <<>>
               THEN tool.tools ELSE None]

\* entry = {"origin": tool_name}; `if "tools" in tool and tool["tools"]`
\* entry["tools"] = tool["tools"]; `if "class" in tool` entry["origin"] =
\* tool["class"].
ConnectivityEntry(tool) ==
    [origin |-> IF tool.class # None THEN tool.class[1] ELSE tool_name_of(tool),
     tools |-> IF tool.tools # None /\ tool.tools[1] # <<>>
               THEN tool.tools ELSE None]

\* The for loop over tools[i..], with `connectivity` and `processed_tools`
\* as they are before iteration i.
RECURSIVE ConnectivityLoop(_, _, _, _)
ConnectivityLoop(tools, i, connectivity, processed_tools) ==
    IF i > Len(tools) THEN connectivity
    ELSE LET tool == tools[i]
             tool_name == tool_name_of(tool)
         IN  IF tool_name \in processed_tools
             THEN ConnectivityLoop(tools, i + 1, connectivity, processed_tools)
             ELSE ConnectivityLoop(tools, i + 1,
                                   Append(connectivity, ConnectivityEntry(tool)),
                                   processed_tools \cup {tool_name})

\* The file at file_path: absent; or there with a text
\* ConfigFactory.parse_file raises on (config None); or there and parsed
\* to a config whose key `tools` is absent (None) or has a list.
ConfigFile(exists, config) == [exists |-> exists, config |-> config]

ConfigFiles ==
    {ConfigFile(FALSE, None), ConfigFile(TRUE, None),
     ConfigFile(TRUE, Some([tools |-> None]))}
    \cup {ConfigFile(TRUE, Some([tools |-> Some(tools)])) :
              tools \in NetworkConfigs}

\* config.get("tools", [])
config_get_tools(config) ==
    IF config.tools = None THEN <<>> ELSE config.tools[1]

\* extract_connectivity_info(file_path): `if not file_path.exists(): raise
\* HTTPException(status_code=404, ..)`; the exception of
\* ConfigFactory.parse_file on a text that is no HOCON leaves the
\* function as it is (raised "parse_file"); else {"connectivity": ..} of
\* the loop over config.get("tools", []).
extract_connectivity_info(file_path) ==
    IF ~file_path.exists
    THEN [raised |-> "HTTPException", status_code |-> 404,
          connectivity |-> <<>>]
    ELSE IF file_path.config = None
    THEN [raised |-> "parse_file", status_code |-> 0, connectivity |-> <<>>]
    ELSE [raised |-> "", status_code |-> 0,
          connectivity |->
              ConnectivityLoop(config_get_tools(file_path.config[1]), 1,
                               <<>>, {})]

\* extract_connectivity_info is called and returns.
ExtractConnectivityInfo ==
    /\ fn_call.fn = "extract_connectivity_info"
    /\ fn_call.result = None
    /\ fn_call' = [fn_call EXCEPT !.result =
           Some(extract_connectivity_info(fn_call.args[1]))]
    /\ UNCHANGED <<busVars, regVars, apiVars, wsVars, sse, edVars, handlerVars>>

\* SpecConnectivity: extract_connectivity_info called on a path with no
\* file, on a file that does not parse, and on any configuration of up to
\* MaxTools tools.
InitConnectivity ==
    /\ InitOf({})
    /\ \E file_path \in ConfigFiles :
           fn_call = [fn |-> "extract_connectivity_info",
                      args |-> <<file_path>>, result |-> None]

NextConnectivity == ExtractConnectivityInfo

SpecConnectivity == InitConnectivity /\ [][NextConnectivity]_vars

\* ------------------------------------------- formulate_chat_request

\* The arguments formulate_chat_request is called with: a dict is its key
\* set, None the default of an optional parameter, chat_context a token
\* ("" is the empty dict).
RequestUserInputs == {"", "hello", "bye"}
SlyDatas == {None, Some({}), Some({"login"}), Some({"login", "token"})}
ChatContexts == {"", "ctx1", "ctx2"}
ChatFilters == {None, Some({}), Some({"chat_filter_type"})}

\* One call of formulate_chat_request(user_input, sly_data, chat_context,
\* chat_filter).
FormulateChatRequest ==
    /\ fn_call.fn = "formulate_chat_request"
    /\ fn_call.result = None
    /\ fn_call' = [fn_call EXCEPT !.result =
           Some(formulate_chat_request(fn_call.args[1], fn_call.args[2],
                                       fn_call.args[3], fn_call.args[4]))]
    /\ UNCHANGED <<busVars, regVars, apiVars, wsVars, sse, edVars, handlerVars>>

\* SpecRequest: formulate_chat_request called with any arguments.
InitRequest ==
    /\ InitOf({})
    /\ \E user_input \in RequestUserInputs : \E sly_data \in SlyDatas :
       \E ctx \in ChatContexts : \E chat_filter \in ChatFilters :
           fn_call = [fn |-> "formulate_chat_request",
                      args |-> <<user_input, sly_data, ctx, chat_filter>>,
                      result |-> None]

NextRequest == FormulateChatRequest

SpecRequest == InitRequest /\ [][NextRequest]_vars

\* ------------------------------------------------------- StateRegistry

\* Most managers the registry holds at a time.
MaxManagers == 3

\* A string is the sequence of its parts; ":" is the separator of a key.
NetworkNames == {<<"net1">>, <<"net2">>, <<"global">>}
SessionIds == {<<"s1">>, <<"default">>}
Uuids == {<<"u1">>, <<"u2">>}

\* f"{network_name}:{session_id}"
RegistryKey(network_name, session_id) ==
    network_name \o <<":">> \o session_id

RegistryKeys ==
    {RegistryKey(n, s) : n \in NetworkNames, s \in SessionIds \cup Uuids}

\* registry_key.split(':', 1)[0]
SplitNetworkName(registry_key) ==
    IF \E i \in 1..Len(registry_key) : registry_key[i] = ":"
    THEN LET i == CHOOSE i \in 1..Len(registry_key) :
                      /\ registry_key[i] = ":"
                      /\ \A j \in 1..(i - 1) : registry_key[j] # ":"
         IN  SubSeq(registry_key, 1, i - 1)
    ELSE registry_key

\* A dict with the entry d[k] = v set (added when k is not a key of d).
DictSet(d, k, v) == [x \in DOMAIN d \cup {k} |-> IF x = k THEN v ELSE d[x]]

\* del d[k]
DictDel(d, k) == [x \in DOMAIN d \ {k} |-> d[x]]

\* StateRegistry.register with the session id in hand (the given one, or
\* the uuid drawn for None): a new key gets a manager and is appended to
\* the list of its network.
register(M, N, network_name, session_id) ==
    LET registry_key == RegistryKey(network_name, session_id)
    IN  IF registry_key \notin M
        THEN [managers |-> M \cup {registry_key},
              network_to_keys |->
                  DictSet(N, network_name,
                          Append(IF network_name \in DOMAIN N
                                 THEN N[network_name] ELSE <<>>,
                                 registry_key)),
              result |-> registry_key]
        ELSE [managers |-> M, network_to_keys |-> N, result |-> registry_key]

\* StateRegistry.unregister: the key leaves _managers and the list of the
\* network its prefix names; a list left empty is deleted.
unregister(M, N, registry_key) ==
    IF registry_key \notin M
    THEN [managers |-> M, network_to_keys |-> N, result |-> FALSE]
    ELSE LET network_name == SplitNetworkName(registry_key)
             removed == IF network_name \in DOMAIN N
                        THEN DictSet(N, network_name,
                                     ListRemove(N[network_name], registry_key))
                        ELSE N
             cleaned == IF network_name \in DOMAIN N
                           /\ removed[network_name] = <<>>
                        THEN DictDel(removed, network_name)
                        ELSE removed
         IN  [managers |-> M \ {registry_key},
              network_to_keys |-> cleaned, result |-> TRUE]

\* The loop of clear_network over keys_to_remove, count being the number
\* of keys unregistered so far.
RECURSIVE ClearLoop(_, _, _, _)
ClearLoop(M, N, keys_to_remove, count) ==
    IF keys_to_remove = <<>>
    THEN [managers |-> M, network_to_keys |-> N, result |-> count]
    ELSE LET r == unregister(M, N, Head(keys_to_remove))
         IN  ClearLoop(r.managers, r.network_to_keys, Tail(keys_to_remove),
                       IF r.result THEN count + 1 ELSE count)

\* StateRegistry.clear_network
clear_network(M, N, network_name) ==
    IF network_name \notin DOMAIN N
    THEN [managers |-> M, network_to_keys |-> N, result |-> 0]
    ELSE ClearLoop(M, N, N[network_name], 0)

\* StateRegistry.get_global_manager: "global:default" gets a manager when
\* it has none; _network_to_keys is not touched.
get_global_manager(M, N) ==
    LET global_key == <<"global", ":", "default">>
    IN  [managers |-> M \cup {global_key}, network_to_keys |-> N,
         result |-> global_key]

\* StateRegistry.list_networks
list_networks == DOMAIN _network_to_keys

\* The registry takes the state a call returned.
RegistryBecomes(r) ==
    /\ _managers' = r.managers
    /\ _network_to_keys' = r.network_to_keys
    /\ UNCHANGED exceptStateRegistry

\* register(network_name, session_id), session_id None drawing a uuid
\* that no key of the network has.
Register(network_name, session_id) ==
    /\ Cardinality(_managers) < MaxManagers
    /\ \E sid \in (IF session_id = None
                   THEN {u \in Uuids :
                             RegistryKey(network_name, u) \notin _managers}
                   ELSE {session_id[1]}) :
           RegistryBecomes(register(_managers, _network_to_keys,
                                    network_name, sid))

Unregister(registry_key) ==
    RegistryBecomes(unregister(_managers, _network_to_keys, registry_key))

ClearNetwork(network_name) ==
    RegistryBecomes(clear_network(_managers, _network_to_keys, network_name))

GetGlobalManager ==
    /\ Cardinality(_managers) < MaxManagers
    /\ RegistryBecomes(get_global_manager(_managers, _network_to_keys))

\* SpecStateRegistry: any sequence of calls on the registry.
NextStateRegistry ==
    \/ \E n \in NetworkNames :
       \E s \in {None} \cup {Some(x) : x \in SessionIds} : Register(n, s)
    \/ \E key \in RegistryKeys : Unregister(key)
    \/ \E n \in NetworkNames : ClearNetwork(n)
    \/ GetGlobalManager

SpecStateRegistry == InitWith({}) /\ [][NextStateRegistry]_vars

\* ------------------------------------------------- SimpleStateRegistry

\* Most load_from_copilot_state calls of a behaviour.
MaxLoads == 2

\* uuid4 values, each standing for its first eight characters too.
DesignIds == {"d1", "d2", "d3"}

\* agent_network_name of a copilot state: absent (""), a plain name, or a
\* name that already ends with "_" and the prefix of a design id.
CopilotNetworkNames == {<<>>, <<"net">>, <<"net", "_", "d1">>}

\* session_id: None, "", or an id.
CopilotSessionIds == {None, Some(""), Some("s1"), Some("s2")}

\* network_name of create_new_network and load_from_registry.
RegistryNetworkNames == {<<>>, <<"net">>}

\* network_name.endswith(f"_{design_id[:8]}")
EndsWithDesignId(network_name, design_id) ==
    /\ Len(network_name) >= 2
    /\ SubSeq(network_name, Len(network_name) - 1, Len(network_name))
           = <<"_", design_id>>

\* info.get("session_id"): None when the info has no such key.
info_get_session_id(info) ==
    IF "session_id" \in DOMAIN info THEN info.session_id ELSE None

\* info.get("network_name") == network_name and
\* info.get("session_id") == session_id
SessionMatches(info, network_name, session_id) ==
    /\ info.network_name = network_name
    /\ info_get_session_id(info) = session_id

\* self.managers[design_id] = manager; the design id is appended to the
\* list of its network name; self.design_id_to_info[design_id] = info.
\* (The timestamps of an info, created_at / loaded_at, are left out.)
RegisterSession(reg, design_id, network_name, info) ==
    [managers |-> reg.managers \cup {design_id},
     network_to_design_ids |->
         DictSet(reg.network_to_design_ids, network_name,
                 Append(IF network_name \in DOMAIN reg.network_to_design_ids
                        THEN reg.network_to_design_ids[network_name]
                        ELSE <<>>, design_id)),
     design_id_to_info |-> DictSet(reg.design_id_to_info, design_id, info)]

\* create_new_network(network_name) with the uuid drawn: the session's
\* name is the given one with "_" and the id's prefix (unless it ends
\* with them), or "network_" and the prefix when none is given.
create_new_network(reg, network_name, design_id) ==
    LET session_network_name ==
            IF network_name # <<>>
            THEN IF ~EndsWithDesignId(network_name, design_id)
                 THEN network_name \o <<"_", design_id>>
                 ELSE network_name
            ELSE <<"network", "_", design_id>>
    IN  [registry |->
             RegisterSession(reg, design_id, session_network_name,
                             [network_name |-> session_network_name,
                              source |-> "new",
                              template_type |-> "single_agent"]),
         design_id |-> design_id]

\* load_from_registry(network_name) with the uuid drawn, `readable`
\* telling whether hocon_reader.read_network_config returns: its
\* exception is logged and raised again, the registry as it was.
load_from_registry(reg, network_name, design_id, readable) ==
    IF ~readable
    THEN [registry |-> reg, design_id |-> "", raised |-> TRUE]
    ELSE LET session_network_name == network_name \o <<"_", design_id>>
         IN  [registry |->
                  RegisterSession(reg, design_id, session_network_name,
                                  [network_name |-> session_network_name,
                                   original_network_name |-> network_name,
                                   source |-> "registry"]),
              design_id |-> design_id, raised |-> FALSE]

\* delete_session(design_id): False when no manager has the id; else the
\* manager, the id in the list of its network (the list too when it is
\* left empty) and the info are removed.
delete_session(reg, design_id) ==
    IF design_id \notin reg.managers
    THEN [registry |-> reg, result |-> FALSE]
    ELSE LET network_name ==
                 IF design_id \in DOMAIN reg.design_id_to_info
                 THEN reg.design_id_to_info[design_id].network_name
                 ELSE <<>>
             ids == reg.network_to_design_ids
             ids_removed ==
                 IF network_name \notin DOMAIN ids THEN ids
                 ELSE LET l == IF design_id \in Range(ids[network_name])
                               THEN ListRemove(ids[network_name], design_id)
                               ELSE ids[network_name]
                      IN  IF l = <<>> THEN DictDel(ids, network_name)
                          ELSE DictSet(ids, network_name, l)
         IN  [registry |->
                  [managers |-> reg.managers \ {design_id},
                   network_to_design_ids |-> ids_removed,
                   design_id_to_info |->
                       DictDel(reg.design_id_to_info, design_id)],
              result |-> TRUE]

\* The sessions load_from_copilot_state finds for the name and session id
\* (`if session_id:` it searches at all).
CopilotSessionsFound(reg, network_name, session_id) ==
    IF session_id = None \/ session_id = Some("") THEN {}
    ELSE {d \in DOMAIN reg.design_id_to_info :
              SessionMatches(reg.design_id_to_info[d], network_name,
                             session_id)}

\* SimpleStateRegistry.load_from_copilot_state on the registry `reg`,
\* design_id being the uuid drawn if a manager is created: the first
\* session found with the name and session id is updated, else a manager
\* is created under the session's own network name.
load_from_copilot_state(reg, network_name, session_id, design_id) ==
    LET found == CopilotSessionsFound(reg, network_name, session_id)
    IN  IF found # {} /\ (CHOOSE d \in found : TRUE) \in reg.managers
        THEN LET existing_design_id == CHOOSE d \in found : TRUE
             IN  [registry |->
                      [reg EXCEPT !.design_id_to_info[existing_design_id] =
                           DictSet(@, "updated_from_copilot", TRUE)],
                  design_id |-> existing_design_id]
        ELSE LET session_network_name ==
                     IF ~EndsWithDesignId(network_name, design_id)
                     THEN network_name \o <<"_", design_id>>
                     ELSE network_name
             IN  [registry |->
                      RegisterSession(reg, design_id, session_network_name,
                                      [network_name |-> session_network_name,
                                       original_network_name |-> network_name,
                                       source |-> "copilot",
                                       session_id |-> session_id]),
                  design_id |-> design_id]

\* One call load_from_copilot_state({"agent_network_name": network_name},
\* session_id); uuid4 gives an id never drawn before.  (before and
\* managers are the keys of self.managers at the call and at the return.)
LoadFromCopilotState(network_name, session_id) ==
    /\ Len(copilot_loads) < MaxLoads
    /\ \E design_id \in
              IF CopilotSessionsFound(_registry_instance, network_name,
                                      session_id) # {}
              THEN CopilotSessionsFound(_registry_instance, network_name,
                                        session_id)
              ELSE DesignIds \ uuids :
           LET r == load_from_copilot_state(_registry_instance, network_name,
                                            session_id, design_id)
           IN  /\ _registry_instance' = r.registry
               /\ uuids' = uuids \cup {r.design_id}
               /\ copilot_loads' =
                      Append(copilot_loads,
                             [network_name |-> network_name,
                              session_id |-> session_id,
                              design_id |-> r.design_id,
                              before |-> _registry_instance.managers,
                              managers |-> r.registry.managers])
    /\ UNCHANGED exceptSimpleRegistry

\* One call create_new_network(network_name).  (create_from_template is
\* taken to return.)
CreateNewNetwork(network_name) ==
    /\ \E design_id \in DesignIds \ uuids :
           /\ _registry_instance' =
                  create_new_network(_registry_instance, network_name,
                                     design_id).registry
           /\ uuids' = uuids \cup {design_id}
    /\ UNCHANGED <<copilot_loads, exceptSimpleRegistry>>

\* One call load_from_registry(network_name), the file of the network
\* readable or not.  uuid4 is drawn after the file was read.
LoadFromRegistry(network_name) ==
    /\ \E design_id \in DesignIds \ uuids : \E readable \in BOOLEAN :
           LET r == load_from_registry(_registry_instance, network_name,
                                       design_id, readable)
           IN  /\ _registry_instance' = r.registry
               /\ uuids' = IF r.raised THEN uuids
                           ELSE uuids \cup {design_id}
    /\ UNCHANGED <<copilot_loads, exceptSimpleRegistry>>

\* One call delete_session(design_id).
DeleteSession(design_id) ==
    /\ _registry_instance' =
           delete_session(_registry_instance, design_id).registry
    /\ UNCHANGED <<uuids, copilot_loads, exceptSimpleRegistry>>

\* save_session_to_file(design_id): state_network_name is the value of
\* the key "network_name" in manager.current_state (None when the state
\* has no such key: the design_id takes its place), and `saved` tells
\* whether there is an edited_state_dir and manager.save_to_file
\* succeeds.  The info of a saved session gets the path of the file, named
\* f"{network_name}_{design_id}.json" (and a time, left out).
save_session_to_file(reg, design_id, state_network_name, saved) ==
    IF design_id \in reg.managers /\ saved
       /\ design_id \in DOMAIN reg.design_id_to_info
    THEN LET network_name == IF state_network_name = None
                             THEN <<design_id>>
                             ELSE state_network_name[1]
         IN  [reg EXCEPT !.design_id_to_info[design_id] =
                  DictSet(@, "file_path",
                          network_name \o <<"_", design_id, ".json">>)]
    ELSE reg

\* The values the key "network_name" of a manager's current_state may
\* hold (SimpleStateManager keeps the state): none, the empty name, or
\* the name the registry has handed to set_network_name.
ManagerNetworkNames(reg, design_id) ==
    {None, Some(<<>>)}
    \cup (IF design_id \in DOMAIN reg.design_id_to_info
          THEN {Some(reg.design_id_to_info[design_id].network_name)}
          ELSE {})

\* Most sessions other than the one being saved that have a file.
MaxSavedSessions == 1

\* One call save_session_to_file(design_id).
SaveSessionToFile(design_id, saved) ==
    /\ LET infos == _registry_instance.design_id_to_info
       IN  Cardinality({d \in DOMAIN infos \ {design_id} :
                            "file_path" \in DOMAIN infos[d]})
               < MaxSavedSessions
    /\ \E state_network_name \in
              ManagerNetworkNames(_registry_instance, design_id) :
           _registry_instance' =
               save_session_to_file(_registry_instance, design_id,
                                    state_network_name, saved)
    /\ UNCHANGED <<uuids, copilot_loads, exceptSimpleRegistry>>

\* SpecCopilot: any sequence of load_from_copilot_state,
\* create_new_network, load_from_registry, delete_session and
\* save_session_to_file calls.
NextCopilot ==
    \/ \E network_name \in CopilotNetworkNames :
       \E session_id \in CopilotSessionIds :
           LoadFromCopilotState(network_name, session_id)
    \/ \E network_name \in RegistryNetworkNames :
           CreateNewNetwork(network_name)
    \/ LoadFromRegistry(<<"net">>)
    \/ \E design_id \in DesignIds : DeleteSession(design_id)
    \/ \E design_id \in DesignIds : \E saved \in BOOLEAN :
           SaveSessionToFile(design_id, saved)

SpecCopilot == InitWith({}) /\ [][NextCopilot]_vars

\* -------------------------------------------------------- StateManager

\* Most subscribed callbacks, and most update_network_state calls the
\* thread makes from outside a callback.
MaxSubscribers == 2
MaxUpdates == 2

\* What a subscribed callback does when it is called: nothing more,
\* raise, or call the method of the manager it is named after.
ReadMethods == {"get_network_state", "get_all_network_states",
                "get_network_names"}
Callbacks == {"plain", "raises", "update_network_state"} \cup ReadMethods

StateNetworkNames == {"net1", "net2"}

\* A call of a method of the manager on the thread's stack: at "with" it
\* is about to enter `with self.state_lock`, at "locked" it is inside.
Frame(fn, network_name, source) ==
    [fn |-> fn, at |-> "with", index |-> 0, network_name |-> network_name,
     source |-> source]

TopFrame == sm_thread.stack[Len(sm_thread.stack)]

\* The stack with its top frame replaced / removed / a frame pushed.
WithTop(frame) ==
    [sm_thread.stack EXCEPT ![Len(sm_thread.stack)] = frame]
Popped == SubSeq(sm_thread.stack, 1, Len(sm_thread.stack) - 1)

\* subscribe_to_updates(callback)
SubscribeToUpdates(callback) ==
    /\ sm_thread.stack = <<>>
    /\ Len(state_manager.subscribers) < MaxSubscribers
    /\ state_manager' = [state_manager EXCEPT !.subscribers =
                             Append(@, callback)]
    /\ UNCHANGED <<sm_thread, exceptStateManager>>

\* unsubscribe_from_updates(callback): the first occurrence of callback
\* is removed, if there is one.
UnsubscribeFromUpdates(callback) ==
    /\ sm_thread.stack = <<>>
    /\ state_manager' =
           [state_manager EXCEPT !.subscribers =
                IF callback \in Range(@) THEN ListRemove(@, callback)
                ELSE @]
    /\ UNCHANGED <<sm_thread, exceptStateManager>>

\* Where a state comes from: a caller of update_network_state, or
\* get_state_from_hocon, which calls update_network_state with the state
\* it has read from the file (line 164).
StateSources == {"editor", "hocon_file"}

\* The methods that take the lock without notifying.
LockedMethods == ReadMethods \cup {"clear_network_state"}

\* The thread calls update_network_state(network_name, state_dict, source),
\* clear_network_state(network_name) or one of the read methods.
StateManagerCall(fn, network_name, source) ==
    /\ sm_thread.stack = <<>>
    /\ sm_thread.calls < MaxUpdates
    /\ fn \in LockedMethods => source = "editor"
    /\ sm_thread' = [sm_thread EXCEPT
                         !.stack = <<Frame(fn, network_name, source)>>,
                         !.calls = @ + 1]
    /\ UNCHANGED <<state_manager, exceptStateManager>>

\* `with self.state_lock`: threading.Lock.acquire returns once the lock is
\* free, whoever holds it.  update_network_state then stores the state
\* (lines 45-51), clear_network_state deletes the network's state if
\* there is one, and a read method takes its value.
AcquireStateLock ==
    /\ sm_thread.stack # <<>>
    /\ TopFrame.at = "with"
    /\ state_manager.state_lock = "free"
    /\ state_manager' =
           [state_manager EXCEPT
                !.state_lock = "held",
                !.network_states =
                    IF TopFrame.fn = "update_network_state"
                    THEN DictSet(@, TopFrame.network_name,
                                 [state |-> sm_thread.calls,
                                  source |-> TopFrame.source])
                    ELSE IF TopFrame.fn = "clear_network_state"
                    THEN DictDel(@, TopFrame.network_name)
                    ELSE @]
    /\ sm_thread' = [sm_thread EXCEPT
                         !.stack = WithTop([TopFrame EXCEPT !.at = "locked",
                                                            !.index = 1])]
    /\ UNCHANGED exceptStateManager

\* _notify_subscribers: the next callback of self.subscribers is called
\* inside the lock.  An exception it raises is caught and logged; a
\* callback that calls a method of the manager enters that method.
NotifySubscriber ==
    /\ sm_thread.stack # <<>>
    /\ TopFrame.fn = "update_network_state"
    /\ TopFrame.at = "locked"
    /\ TopFrame.index <= Len(state_manager.subscribers)
    /\ LET callback == state_manager.subscribers[TopFrame.index]
           advanced == WithTop([TopFrame EXCEPT !.index = @ + 1])
       IN  sm_thread' =
               [sm_thread EXCEPT
                    !.notified = Append(@, [call |-> sm_thread.calls,
                                            index |-> TopFrame.index,
                                            callback |-> callback]),
                    !.stack =
                        IF callback \in {"plain", "raises"} THEN advanced
                        ELSE Append(advanced,
                                    Frame(callback, TopFrame.network_name,
                                          "callback"))]
    /\ UNCHANGED <<state_manager, exceptStateManager>>

\* The with block ends (after the last callback, or after the read): the
\* lock is released and the method returns, to the callback that called
\* it or to the thread.
ReleaseStateLock ==
    /\ sm_thread.stack # <<>>
    /\ TopFrame.at = "locked"
    /\ TopFrame.fn = "update_network_state"
       => TopFrame.index > Len(state_manager.subscribers)
    /\ state_manager' = [state_manager EXCEPT !.state_lock = "free"]
    /\ sm_thread' = [sm_thread EXCEPT
                         !.stack = Popped,
                         !.returned = IF Len(sm_thread.stack) = 1
                                      THEN @ + 1 ELSE @]
    /\ UNCHANGED exceptStateManager

StateManagerSteps == AcquireStateLock \/ NotifySubscriber \/ ReleaseStateLock

\* SpecStateManager: between the calls the thread makes of the manager,
\* callbacks subscribe and unsubscribe; the thread runs whenever it can.
NextStateManager ==
    \/ \E callback \in Callbacks :
           \/ SubscribeToUpdates(callback)
           \/ UnsubscribeFromUpdates(callback)
    \/ \E fn \in {"update_network_state"} \cup LockedMethods :
       \E n \in StateNetworkNames : \E source \in StateSources :
           StateManagerCall(fn, n, source)
    \/ StateManagerSteps

SpecStateManager ==
    /\ InitWith({})
    /\ [][NextStateManager]_vars
    /\ WF_vars(AcquireStateLock)
    /\ WF_vars(NotifySubscriber)
    /\ WF_vars(ReleaseStateLock)

\* ----------------------------------------------- build_nodes_and_edges

\* Longest connectivity_info and longest `tools` list of an entry.
MaxEntries == 2
MaxEntryTools == 2

\* Python's integers and lists have no bound.  Depths are kept exactly
\* below MaxDepth, and MaxDepth stands for every depth from MaxDepth on;
\* of a stack longer than MaxStack the MaxStack entries on top are
\* kept.  A graph without a cycle over GraphNames stays below both (its
\* depths are at most 2 and its stack holds at most 3 entries), so
\* both are met only while the loop of step 2 runs round a cycle.
MaxDepth == 4
MaxStack == 5

GraphNames == {"r", "a", "b"}

\* An entry of connectivity_info: an origin and, possibly, its tools.
GraphEntries ==
    [origin : GraphNames,
     tools : {None} \cup {Some(l) : l \in UNION {[1..n -> GraphNames] :
                                                  n \in 0..MaxEntryTools}}]

ConnectivityInfos == UNION {[1..n -> GraphEntries] : n \in 0..MaxEntries}

\* entry.get("tools", [])
entry_tools(entry) == IF entry.tools = None THEN <<>> ELSE entry.tools[1]

\* parent_map after `for tool in tools: parent_map[tool] = origin`
WithParents(parent_map, tools, origin) ==
    [x \in DOMAIN parent_map \cup Range(tools) |->
         IF x \in Range(tools) THEN origin ELSE parent_map[x]]

\* Step 1, the loop over connectivity_info (origins is the order in which
\* the keys of origin_to_tools were inserted).
RECURSIVE MapOrigins(_, _)
MapOrigins(entries, loc) ==
    IF entries = <<>> THEN loc
    ELSE LET entry == Head(entries)
             origin == entry.origin
             tools == entry_tools(entry)
         IN  MapOrigins(Tail(entries),
                 [loc EXCEPT
                      !.origin_to_tools = DictSet(@, origin, tools),
                      !.origins = IF origin \in Range(@) THEN @
                                  ELSE Append(@, origin),
                      !.all_nodes = @ \cup {origin} \cup Range(tools),
                      !.parent_map = WithParents(@, tools, origin)])

\* origin_to_tools.get(node, [])
children_of(loc, node) ==
    IF node \in DOMAIN loc.origin_to_tools THEN loc.origin_to_tools[node]
    ELSE <<>>

\* current_depth + 1
deeper(depth) == IF depth < MaxDepth THEN depth + 1 ELSE MaxDepth

\* depth_map[current_node] < current_depth.  From MaxDepth on the loop
\* is on a cycle, where a node comes back one round deeper than the
\* depth it was given on the round before.
shallower(recorded, depth) == recorded < depth \/ depth = MaxDepth

\* The MaxStack entries on top of the stack.
top_of(stack) ==
    IF Len(stack) <= MaxStack THEN stack
    ELSE SubSeq(stack, Len(stack) - MaxStack + 1, Len(stack))

\* current_node, current_depth = stack.pop()
stack_pop(loc) ==
    [loc EXCEPT !.current = Some(loc.stack[Len(loc.stack)]),
                !.stack = SubSeq(loc.stack, 1, Len(loc.stack) - 1)]

\* The body of `while stack` after the pop: when the node has no depth
\* or a smaller one, take the depth and push the children one deeper.
depth_step(loc) ==
    LET top == loc.current[1]
        children == children_of(loc, top.node)
    IN  IF top.node \notin DOMAIN loc.depth_map
           \/ shallower(loc.depth_map[top.node], top.depth)
        THEN [loc EXCEPT
                  !.depth_map = DictSet(@, top.node, top.depth),
                  !.stack = top_of(@ \o [i \in 1..Len(children) |->
                                             [node |-> children[i],
                                              depth |-> deeper(top.depth)]])]
        ELSE loc

\* Step 3: the node dict of `node`.
node_dict(loc, node) ==
    [id |-> node,
     depth |-> IF node \in DOMAIN loc.depth_map THEN loc.depth_map[node]
               ELSE 0,
     parent |-> IF node \in DOMAIN loc.parent_map
                THEN Some(loc.parent_map[node]) ELSE None,
     children |-> children_of(loc, node)]

\* Step 4: the edge dicts, origin by origin, tool by tool.
RECURSIVE edge_dicts(_, _)
edge_dicts(loc, origins) ==
    IF origins = <<>> THEN <<>>
    ELSE LET origin == Head(origins)
             tools == loc.origin_to_tools[origin]
         IN  [i \in 1..Len(tools) |-> [source |-> origin, target |-> tools[i]]]
             \o edge_dicts(loc, Tail(origins))

\* The call enters: step 1, then the stack of all the roots (the nodes
\* with no parent), in the order the set all_nodes gives them, which is
\* any order.
BuildMap ==
    /\ fn_call.fn = "build_nodes_and_edges"
    /\ build.step = "idle"
    /\ LET loc == MapOrigins(fn_call.args[1], NoBuild)
           roots == {n \in loc.all_nodes : n \notin DOMAIN loc.parent_map}
       IN  \E order \in Orderings(roots) :
               build' = [loc EXCEPT
                             !.step = "while",
                             !.stack = [i \in 1..Len(order) |->
                                            [node |-> order[i], depth |-> 0]]]
    /\ UNCHANGED <<fn_call, exceptBuild>>

\* `while stack` finds an entry and pops it.
BuildPop ==
    /\ build.step = "while"
    /\ build.stack # <<>>
    /\ build' = [stack_pop(build) EXCEPT !.step = "visit"]
    /\ UNCHANGED <<fn_call, exceptBuild>>

\* The rest of the pass, and back to the test of the while loop.
BuildDepth ==
    /\ build.step = "visit"
    /\ build' = [depth_step(build) EXCEPT !.step = "while"]
    /\ UNCHANGED <<fn_call, exceptBuild>>

\* The stack is empty: steps 3 and 4, and the call returns.
BuildReturn ==
    /\ build.step = "while"
    /\ build.stack = <<>>
    /\ build' = [build EXCEPT !.step = "returned"]
    /\ fn_call' = [fn_call EXCEPT !.result =
           Some([nodes |-> {node_dict(build, n) : n \in build.all_nodes},
                 edges |-> edge_dicts(build, build.origins)])]
    /\ UNCHANGED exceptBuild

\* The connectivity_info of a network has one entry for each of its
\* agents.
NetworkInfos ==
    {info \in ConnectivityInfos :
         \A i, j \in 1..Len(info) : info[i].origin = info[j].origin => i = j}

\* SpecBuild: build_nodes_and_edges called with the connectivity_info of
\* any network; the call runs on for as long as its loop has a pass to
\* make.
InitBuild ==
    /\ InitOf({})
    /\ \E info \in NetworkInfos :
           fn_call = [fn |-> "build_nodes_and_edges", args |-> <<info>>,
                      result |-> None]

NextBuild == BuildMap \/ BuildPop \/ BuildDepth \/ BuildReturn

SpecBuild == InitBuild /\ [][NextBuild]_vars /\ WF_vars(NextBuild)

\* ------------------------------------------------- andeditor: agents

\* Most agents in the `tools` list of a network file.
MaxAgents == 3

EditorNetworks == {"net", "new"}
AgentNames == {"a", "b", "c"}

\* An agent dict of `tools`: its name and what the rest of it holds.
AgentDict(name, body) == [name |-> name, body |-> body]

\* The bodies of PUT requests, and the requests of POST.
AgentBodies == {AgentDict(n, "custom") : n \in AgentNames}
AgentCreateRequests ==
    [name : AgentNames, agent_type : {"conversational", "coded_tool"},
     template : {None} \cup {Some(n) : n \in AgentNames}]

\* The positions of the tools named `name`.
Named(tools, name) == {i \in 1..Len(tools) : tools[i].name = name}

\* update_agent on the tools of the file: the first tool named agent_name
\* is replaced by the body of the request, whatever its name; 404 when
\* there is none.
update_agent(tools, agent_name, agent) ==
    IF Named(tools, agent_name) = {}
    THEN [status |-> 404, tools |-> tools]
    ELSE LET i == CHOOSE i \in Named(tools, agent_name) :
                      \A j \in Named(tools, agent_name) : i <= j
         IN  [status |-> 200, tools |-> [tools EXCEPT ![i] = agent]]

\* create_agent: 409 when a tool has the name; else the new agent, or the
\* copy of the template under the new name, is appended.
create_agent(tools, request) ==
    IF Named(tools, request.name) # {}
    THEN [status |-> 409, tools |-> tools]
    ELSE LET new_agent == AgentDict(request.name, request.agent_type)
             templates == IF request.template = None THEN {}
                          ELSE Named(tools, request.template[1])
             template_agent ==
                 IF templates = {} THEN new_agent
                 ELSE LET i == CHOOSE i \in templates :
                                   \A j \in templates : i <= j
                      IN  [tools[i] EXCEPT !.name = request.name]
         IN  [status |-> 200, tools |-> Append(tools, template_agent)]

\* delete_agent: every tool of that name is removed; 404 when none is.
delete_agent(tools, agent_name) ==
    LET kept == SelectSeq(tools, LAMBDA tool : tool.name # agent_name)
    IN  IF Len(kept) = Len(tools) THEN [status |-> 404, tools |-> tools]
        ELSE [status |-> 200, tools |-> kept]

\* An editing session, without its times: last_saved tells whether the
\* key "last_saved" is there.
EditingSession(has_unsaved_changes, last_saved) ==
    [is_editing |-> TRUE, has_unsaved_changes |-> has_unsaved_changes,
     last_saved |-> last_saved]

\* save_network_config(network_name, config), lines 126-128: the session
\* of a saved network has no unsaved changes.
save_network_config(sessions, network_name) ==
    IF network_name \in DOMAIN sessions
    THEN [sessions EXCEPT ![network_name].last_saved = TRUE,
                          ![network_name].has_unsaved_changes = FALSE]
    ELSE sessions

\* start_editing_session(network_name)
start_editing_session(sessions, network_name) ==
    DictSet(sessions, network_name, EditingSession(FALSE, FALSE))

\* mark_modified(network_name)
mark_modified(sessions, network_name) ==
    LET started == IF network_name \in DOMAIN sessions THEN sessions
                   ELSE start_editing_session(sessions, network_name)
    IN  [started EXCEPT ![network_name].has_unsaved_changes = TRUE]

\* A request on the agents of network_name has been served with result r
\* (get_network_config raises 404 when the file does not exist): on
\* success the file is saved and then the network marked modified.
AgentRequestServed(endpoint, network_name, r) ==
    /\ http_response' = [endpoint |-> endpoint, status |-> r.status]
    /\ IF r.status = 200
       THEN /\ network_files' = DictSet(network_files, network_name, r.tools)
            /\ editing_sessions' =
                   mark_modified(save_network_config(editing_sessions,
                                                     network_name),
                                 network_name)
       ELSE UNCHANGED <<network_files, editing_sessions>>
    /\ UNCHANGED <<manifest, exceptAndEditor>>

NoNetwork == [status |-> 404, tools |-> <<>>]

UpdateAgent(network_name, agent_name, agent) ==
    AgentRequestServed("update_agent", network_name,
        IF network_name \notin DOMAIN network_files THEN NoNetwork
        ELSE update_agent(network_files[network_name], agent_name, agent))

CreateAgent(network_name, request) ==
    /\ network_name \in DOMAIN network_files
       => Len(network_files[network_name]) < MaxAgents
    /\ AgentRequestServed("create_agent", network_name,
           IF network_name \notin DOMAIN network_files THEN NoNetwork
           ELSE create_agent(network_files[network_name], request))

DeleteAgent(network_name, agent_name) ==
    AgentRequestServed("delete_agent", network_name,
        IF network_name \notin DOMAIN network_files THEN NoNetwork
        ELSE delete_agent(network_files[network_name], agent_name))

\* POST /networks/{network_name}/save: the config that was read is
\* written back, 404 when the file does not exist.
SaveNetwork(network_name) ==
    /\ http_response' =
           [endpoint |-> "save_network",
            status |-> IF network_name \in DOMAIN network_files THEN 200
                       ELSE 404]
    /\ editing_sessions' =
           IF network_name \in DOMAIN network_files
           THEN save_network_config(editing_sessions, network_name)
           ELSE editing_sessions
    /\ UNCHANGED <<network_files, manifest, exceptAndEditor>>

\* PUT llm_config, include and commondefs: the key of the config is set,
\* its tools stay; the file is saved and the network marked modified,
\* 404 when the file does not exist.
ConfigEndpoints == {"update_llm_config", "update_include_statements",
                    "update_common_definitions"}

UpdateConfig(endpoint, network_name) ==
    AgentRequestServed(endpoint, network_name,
        IF network_name \notin DOMAIN network_files THEN NoNetwork
        ELSE [status |-> 200, tools |-> network_files[network_name]])

\* custom_vars.variables: no variable, or a variable "tools" (no tool, or
\* the agent a).
CustomVariables ==
    {<<>>} \cup {[k \in {"tools"} |-> tools] :
                    tools \in {<<>>, <<AgentDict("a", "conversational")>>}}

\* update_custom_variables: the standard keys of the config are kept,
\* "tools" among them, and config.update(custom_vars.variables) sets the
\* keys of the request over them.
update_custom_variables(tools, variables) ==
    [status |-> 200,
     tools |-> IF "tools" \in DOMAIN variables THEN variables["tools"]
               ELSE tools]

UpdateCustomVariables(network_name, variables) ==
    AgentRequestServed("update_custom_variables", network_name,
        IF network_name \notin DOMAIN network_files THEN NoNetwork
        ELSE update_custom_variables(network_files[network_name],
                                     variables))

\* The tools lists of at most two agents whose names differ.
UniqueTools ==
    {tools \in UNION {[1..n -> {AgentDict(name, "conversational") :
                                    name \in AgentNames}] : n \in 0..2} :
         \A i, j \in 1..Len(tools) : tools[i].name = tools[j].name => i = j}

\* SpecAgents: the file of network "net" holds agents of distinct names;
\* then any requests on agents and on the keys of a config, and to save
\* a network.
InitAgents ==
    /\ InitBase({})
    /\ fn_call = NoCall
    /\ \E tools \in UniqueTools : network_files = [n \in {"net"} |-> tools]
    /\ manifest = {"net"}
    /\ editing_sessions = <<>>
    /\ http_response = NoResponse

NextAgents ==
    \E network_name \in EditorNetworks :
        \/ \E agent_name \in AgentNames : \E agent \in AgentBodies :
               UpdateAgent(network_name, agent_name, agent)
        \/ \E request \in AgentCreateRequests :
               CreateAgent(network_name, request)
        \/ \E agent_name \in AgentNames :
               DeleteAgent(network_name, agent_name)
        \/ SaveNetwork(network_name)
        \/ \E endpoint \in ConfigEndpoints :
               UpdateConfig(endpoint, network_name)
        \/ \E variables \in CustomVariables :
               UpdateCustomVariables(network_name, variables)

SpecAgents == InitAgents /\ [][NextAgents]_vars

\* ------------------------------------------------- andeditor: rename

RenameNetworks == {"net", "new", "old"}

\* Whether, and in which of its two calls, update_manifest raises while
\* update_network_title runs (manifest.hocon cannot be read or written).
ManifestFailures == {"none", "remove", "add"}

\* AndEditor.update_manifest(network_name, enabled), reading and writing
\* the manifest without error.
update_manifest(entries, network_name, enabled) ==
    IF enabled THEN entries \cup {network_name}
    ELSE entries \ {network_name}

\* editor.editing_sessions[new] = editor.editing_sessions.pop(old)
move_session(sessions, old, new) ==
    IF old \in DOMAIN sessions
    THEN DictSet(DictDel(sessions, old), new, sessions[old])
    ELSE sessions

\* shutil.move(old_file_path, new_file_path)
move_file(files, old, new) == DictSet(DictDel(files, old), new, files[old])

\* update_network_title(network_name, new_title) on the registry `dir`
\* (files, manifest, sessions): the checks, the move of the file, the two
\* updates of the manifest (an HTTPException of update_manifest is
\* re-raised at once), the move of the editing session.
update_network_title(dir, network_name, title, failure) ==
    IF network_name = title THEN [dir EXCEPT !.status = 200]
    ELSE IF network_name \notin DOMAIN dir.files
    THEN [dir EXCEPT !.status = 404]
    ELSE IF title \in DOMAIN dir.files
    THEN [dir EXCEPT !.status = 409]
    ELSE LET moved == move_file(dir.files, network_name, title)
             removed == update_manifest(dir.manifest, network_name, FALSE)
             added == update_manifest(removed, title, TRUE)
         IN  IF failure = "remove"
             THEN [dir EXCEPT !.status = 500, !.files = moved]
             ELSE IF failure = "add"
             THEN [dir EXCEPT !.status = 500, !.files = moved,
                              !.manifest = removed]
             ELSE [status |-> 200, files |-> moved, manifest |-> added,
                   sessions |-> move_session(dir.sessions, network_name,
                                             title)]

\* PUT /networks/{network_name}/title
UpdateNetworkTitle(network_name, title, failure) ==
    LET r == update_network_title(
                 [status |-> 0, files |-> network_files,
                  manifest |-> manifest, sessions |-> editing_sessions],
                 network_name, title, failure)
    IN  /\ network_files' = r.files
        /\ manifest' = r.manifest
        /\ editing_sessions' = r.sessions
        /\ http_response' = [endpoint |-> "update_network_title",
                             status |-> r.status,
                             network_name |-> network_name, title |-> title]
        /\ UNCHANGED exceptAndEditor

\* NetworkCreateRequest
NetworkCreateRequests ==
    [name : RenameNetworks,
     template : {None} \cup {Some(n) : n \in RenameNetworks},
     add_to_manifest : BOOLEAN]

\* create_network(request) on the registry `dir` (files, manifest,
\* sessions): 409 when the file exists; the config is the template's (404
\* when that has no file) or a new one without tools; it is saved; the
\* name is added to the manifest when asked for (update_manifest raising
\* ends the request with 500, the file written); the editing session is
\* started.
create_network(dir, request, manifest_raises) ==
    IF request.name \in DOMAIN dir.files THEN [dir EXCEPT !.status = 409]
    ELSE IF request.template # None
            /\ request.template[1] \notin DOMAIN dir.files
    THEN [dir EXCEPT !.status = 404]
    ELSE LET config == IF request.template # None
                       THEN dir.files[request.template[1]]
                       ELSE <<>>
             saved == [dir EXCEPT
                           !.files = DictSet(@, request.name, config),
                           !.sessions = save_network_config(@, request.name)]
         IN  IF request.add_to_manifest /\ manifest_raises
             THEN [saved EXCEPT !.status = 500]
             ELSE [saved EXCEPT
                       !.status = 200,
                       !.manifest = IF request.add_to_manifest
                                    THEN update_manifest(@, request.name, TRUE)
                                    ELSE @,
                       !.sessions = start_editing_session(@, request.name)]

\* POST /networks
CreateNetwork(request, manifest_raises) ==
    LET r == create_network(
                 [status |-> 0, files |-> network_files,
                  manifest |-> manifest, sessions |-> editing_sessions],
                 request, manifest_raises)
    IN  /\ network_files' = r.files
        /\ manifest' = r.manifest
        /\ editing_sessions' = r.sessions
        /\ http_response' = [endpoint |-> "create_network",
                             status |-> r.status]
        /\ UNCHANGED exceptAndEditor

\* SpecRename: a registry directory with any files, manifest entries and
\* editing sessions; then any requests to rename and to create networks.
InitRename ==
    /\ InitBase({})
    /\ fn_call = NoCall
    /\ \E files \in SUBSET RenameNetworks :
           network_files = [n \in files |-> <<AgentDict("a", "conversational")>>]
    /\ manifest \in SUBSET RenameNetworks
    /\ \E sessions \in SUBSET RenameNetworks :
           editing_sessions = [n \in sessions |->
                                   EditingSession(FALSE, FALSE)]
    /\ http_response = NoResponse

NextRename ==
    \/ \E network_name \in RenameNetworks : \E title \in RenameNetworks :
       \E failure \in ManifestFailures :
           UpdateNetworkTitle(network_name, title, failure)
    \/ \E request \in NetworkCreateRequests :
       \E manifest_raises \in BOOLEAN :
           CreateNetwork(request, manifest_raises)

SpecRename == InitRename /\ [][NextRename]_vars

\* ------------------------------------------ ProcessLogTee, drain_pipe

\* Most lines the child writes.
MaxLines == 3

\* The lines a child writes, each without its "\n", as the sequence of
\* its parts (TextParts).
LineTexts == { <<>>, <<"x">>, <<"m">>, <<"{", "}">>, <<"{">>, <<"x", "{">>,
               <<"}">>, <<"r", "}">>, <<"[", "]">>, <<"[", "{">>,
               <<"}", "]">> }

\* count_braces_outside_quotes(line)
RECURSIVE count_braces_outside_quotes(_)
count_braces_outside_quotes(s) ==
    IF s = <<>> THEN 0
    ELSE (IF Head(s) = "{" THEN 1 ELSE IF Head(s) = "}" THEN -1 ELSE 0)
         + count_braces_outside_quotes(Tail(s))

\* What lenient_inner_json_parse(text) returns, text being a line or the
\* lines of a block: None for a text that is empty or starts with neither
\* "{" nor "[", else what json.loads makes of it (a dict or a list), or
\* None when json.loads raises.  (The cleanup pass removes commas before
\* a closing bracket and unescapes: the texts here hold neither.)
lenient_inner_json_parse(s) ==
    IF s = <<>> \/ Head(s) \notin {"{", "["} THEN "None"
    ELSE IF json_loads(s) = "JSONDecodeError" THEN "None"
    ELSE json_loads(s)

\* JsonReassembler.should_flush(line), the line having been added.
should_flush(balance, line) ==
    \/ balance <= 0
    \/ /\ "r" \in Range(line)
       /\ line[Len(line)] = "}"

\* One emission on the console logger, made of the lines `ids`.
Emitted(t, ids) == [t EXCEPT !.console = Append(@, ids)]

\* _emit_json_block(record) of what was parsed from the lines `ids`:
\* record.get raises AttributeError when the record is a list.
emit_json_block(t, ids, parsed) ==
    IF parsed = "list" THEN [t EXCEPT !.raised = "AttributeError"]
    ELSE Emitted(t, ids)

\* The text of the block made of the lines `ids` of the pipe.
RECURSIVE BlockText(_, _)
BlockText(lines, ids) ==
    IF ids = <<>> THEN <<>>
    ELSE lines[Head(ids)] \o BlockText(lines, Tail(ids))

\* JsonReassembler.flush followed by _emit_collected(block): the
\* reassembler is reset, then the buffered lines make one emission (as
\* JSON, as a rebuilt record or as one line of text) unless the block
\* parses to a list.
FlushCollected(t, lines) ==
    emit_json_block([t EXCEPT !.buffer = <<>>, !.balance = 0,
                              !.collecting = FALSE],
                    t.buffer, lenient_inner_json_parse(BlockText(lines, t.buffer)))

\* ProcessLogTee.handle_line(raw_line) for line number id of the pipe.
\* An empty line is written to the tee as raw_line, "\n", followed by
\* "\n": two empty lines; nothing is emitted.  Any other line is written
\* once; then it is emitted alone (single-line JSON or plain text), or
\* starts a collection, or joins the one in hand.
handle_line(t, id, lines) ==
    LET line == lines[id]
    IN  IF line = <<>>
        THEN [t EXCEPT !.file = @ \o <<id, id>>]
        ELSE LET w == [t EXCEPT !.file = Append(@, id)]
             IN  IF lenient_inner_json_parse(line) # "None"
                 THEN emit_json_block(w, <<id>>, lenient_inner_json_parse(line))
                 ELSE IF ~w.collecting
                 THEN IF "{" \in Range(line)
                      THEN LET c == [w EXCEPT
                                         !.buffer = <<id>>,
                                         !.balance = count_braces_outside_quotes(line),
                                         !.collecting = TRUE]
                           IN  IF c.balance <= 0 THEN FlushCollected(c, lines)
                               ELSE c
                      ELSE Emitted(w, <<id>>)
                 ELSE LET a == [w EXCEPT
                                    !.buffer = Append(@, id),
                                    !.balance = @ + count_braces_outside_quotes(line)]
                      IN  IF should_flush(a.balance, line)
                          THEN FlushCollected(a, lines)
                          ELSE a

\* The child writes a line to its pipe, whose other end is open.
ChildWrite(line) ==
    /\ ~pipe.exited
    /\ ~tee.closed
    /\ Len(pipe.lines) < MaxLines
    /\ pipe' = [pipe EXCEPT !.lines = Append(@, line)]
    /\ UNCHANGED <<tee, exceptTee>>

\* The child exits: its end of the pipe is closed.
ChildExit ==
    /\ ~pipe.exited
    /\ pipe' = [pipe EXCEPT !.exited = TRUE]
    /\ UNCHANGED <<tee, exceptTee>>

\* drain_pipe: readline returns the next line; tee.handle_line(line).
\* When handle_line raises, the finally clause closes the pipe and the
\* tee and the exception ends the thread, the lines after this one unread.
DrainLine ==
    /\ pipe.read < Len(pipe.lines)
    /\ ~tee.closed
    /\ pipe' = [pipe EXCEPT !.read = @ + 1]
    /\ LET t == handle_line(tee, pipe.read + 1, pipe.lines)
       IN  tee' = [t EXCEPT !.closed = t.raised # ""]
    /\ UNCHANGED exceptTee

\* drain_pipe: readline returns "" at end of file; pipe.close() and
\* tee.close(), which flushes and closes the tee file only.
DrainEof ==
    /\ pipe.exited
    /\ pipe.read = Len(pipe.lines)
    /\ ~tee.closed
    /\ tee' = [tee EXCEPT !.closed = TRUE]
    /\ UNCHANGED <<pipe, exceptTee>>

\* SpecTee: a child writes lines and exits while its pipe is drained.
NextTee ==
    \/ \E line \in LineTexts : ChildWrite(line)
    \/ ChildExit
    \/ DrainLine
    \/ DrainEof

SpecTee == InitWith({}) /\ [][NextTee]_vars

\* ------------------------------------------------------------ claims

\* No coroutine has a send of a broadcast outstanding.
Quiescent == \A t \in Tasks : Exhausted(t)

\* The frames of turn t its chat connection has received (FinalAnswers).
FinalAnswersOf(t) ==
    LET got == SelectTask(inbox[owner[t]], t)
    IN  [i \in 1..Len(got) |-> got[i].message.text]

\* The texts of the AI-typed messages of a stream, in order.
RECURSIVE AITexts(_)
AITexts(stream) ==
    IF stream = <<>> THEN <<>>
    ELSE IF Head(stream).type = "AI"
         THEN <<Head(stream).text>> \o AITexts(Tail(stream))
         ELSE AITexts(Tail(stream))

Spawned(t) == pc[t] \notin {"idle", "unused"}
StreamCompleted(t) == pc[t] \in {"send", "sent", "finishing", "done"}

\* C1 (SpecBuffer): after any sequence of log_event calls, interleaved with
\* subscribes, disconnects and send failures, the replay buffer holds
\* min(M, LOG_BUFFER_SIZE) entries, and they are the most recently published
\* ones in publish order (entry i of the buffer is publish number
\* M - len + i).
C1_BufferHoldsNewest ==
    /\ Len(log_buffer) = Min(published, LOG_BUFFER_SIZE)
    /\ \A i \in 1..Len(log_buffer) :
           log_buffer[i].id = published - Len(log_buffer) + i

\* More than LOG_BUFFER_SIZE events were published, the oldest were evicted,
\* and a subscriber that joined was pruned after a failed send.
C1_Witness ==
    /\ published > LOG_BUFFER_SIZE + 1
    /\ Len(log_buffer) = LOG_BUFFER_SIZE
    /\ log_buffer[1].id > 2
    /\ pc["L1"] = "sleep"
    /\ sock["L1"] = "closed"
    /\ active_log_connections = <<>>

\* C2 (SpecBuffer), as claimed: a subscriber that attached after more than
\* LOG_BUFFER_SIZE events were published with no subscriber attached has
\* received the buffer backlog (the last LOG_BUFFER_SIZE events, oldest
\* first) before anything else, once its subscribe has completed.
C2_BacklogThenLive ==
    \A ws \in LogSocks :
        ( /\ pc[ws] = "sleep"
          /\ sock[ws] = "open"
          /\ Len(backlog[ws]) = LOG_BUFFER_SIZE
          /\ backlog[ws][1].id > 1 )
        => IsPrefix(backlog[ws], inbox[ws])

\* C3 (SpecLogs), as claimed: a subscriber that attached while events were
\* being published has observed every published event exactly once and in
\* publish order, whenever no send is outstanding.
C3_EachEventOnceInOrder ==
    \A ws \in LogSocks :
        ( /\ pc[ws] = "sleep"
          /\ sock[ws] = "open"
          /\ ws \in Range(active_log_connections)
          /\ Quiescent )
        => inbox[ws] = log_buffer

\* C4 (SpecLogs), as claimed: no publish ends by raising (no publisher is
\* ended by the ValueError of a removal), and when a broadcast has run to
\* its end, every sink that was subscribed when it started and is still
\* subscribed and open has received the event (a failed sink costs no other
\* sink the event).
C4_FailureIsolated ==
    \A t \in Tasks :
        /\ pc[t] # "ValueError"
        /\ (iter[t].kind = "log" /\ Exhausted(t))
           => \A ws \in Range(iter[t].start) :
                  (sock[ws] = "open" /\ ws \in Range(active_log_connections))
                  => iter[t].entry \in Range(inbox[ws])

\* Coroutine t's publish has not yet reached healthy sink h, which was
\* subscribed when the publish started.
Owes(t, h) ==
    /\ iter[t].kind = "log"
    /\ h \in Range(iter[t].start)
    /\ sock[h] = "open"
    /\ iter[t].entry \notin Range(inbox[h])

\* Coroutine t's publish is at a sink that never drains.
BehindStalled(t, s) ==
    /\ iter[t].kind = "log"
    /\ iter[t].websocket = Some(s)
    /\ sock[s] = "stalled"

\* C5 (SpecStall), as claimed: a sink that never drains does not keep a
\* published event from a healthy sink of the same scope, and the stalled
\* sink a publish is waiting on is eventually pruned.
C5_StalledSinkIsolated ==
    /\ \A t \in Tasks : \A h \in LogSocks : Owes(t, h) ~> ~Owes(t, h)
    /\ \A t \in Tasks : \A s \in LogSocks :
           BehindStalled(t, s) ~> (s \notin Range(active_log_connections))

\* C6 (SpecRegistry): for every scope key at most one manager instance is
\* ever constructed, every call for the key returned that instance (each
\* connection still holds the registered one: never replaced or removed),
\* and the instance exists iff the key was looked up.
C6_RegistrySingleton ==
    \A a \in ScopeKeys :
        /\ Cardinality(created[a]) <= 1
        /\ logs_managers[a] # 0 => created[a] = {logs_managers[a]}
        /\ \A k \in Connections :
               held[k][a] # 0 => held[k][a] = logs_managers[a]
        /\ (logs_managers[a] = 0) <=> (\A k \in Connections : held[k][a] = 0)

\* Three connections looked the same key up, and another key exists too.
C6_Witness ==
    \E a \in ScopeKeys :
        /\ \A k \in Connections : held[k][a] # 0
        /\ \E b \in ScopeKeys \ {a} : logs_managers[b] # 0

\* C7 (SpecTurns), as claimed: every log subscriber receives the events
\* published by turns in the order of the replay buffer (publish order).
C7_PublishesSerialized ==
    \A ws \in LogSocks :
        \A i, j \in 1..Len(inbox[ws]) :
            ( /\ i < j
              /\ inbox[ws][i].task \in Turns
              /\ inbox[ws][j].task \in Turns )
            => inbox[ws][i].id < inbox[ws][j].id

\* Subscriber ws got turn t's first TraceStep and is still subscribed and
\* open: it was attached for the whole turn.
WholeTurn(ws, t) ==
    /\ sock[ws] = "open"
    /\ ws \in Range(active_internal_chat_connections)
    /\ \E i \in 1..Len(inbox[ws]) : inbox[ws][i].task = t /\ inbox[ws][i].n = 1

\* The upstream positions of turn t's TraceSteps, as ws received them.
TracePositions(ws, t) ==
    LET got == SelectTask(inbox[ws], t)
    IN  [i \in 1..Len(got) |-> got[i].n]

\* C8 (SpecTrace), as claimed: once a turn is done, every subscriber
\* attached for the whole turn has received the turn's TraceSteps in the
\* order the upstream produced the messages, one per message (so all such
\* subscribers hold the same sequence), and the FinalAnswer is only sent
\* after the stream has been consumed.
C8_TurnOrderAtEverySubscriber ==
    \A t \in Turns :
        /\ pc[t] = "done" =>
              \A ws \in IChatSocks :
                  WholeTurn(ws, t) =>
                      TracePositions(ws, t) = [i \in 1..Len(consumed[t]) |-> i]
        /\ finalOutcome[t] = "sent" => StreamCompleted(t)

\* C9 (Spec): nothing is sent on the chat channel for a turn before its
\* stream completes, at most one FinalAnswer is ever sent for it, and a turn
\* whose stream held the AI texts "A" then "B" and completed does not skip
\* the answer: when its send succeeds the chat connection has received
\* exactly one FinalAnswer for the turn, with text "B" (in general: the last
\* AI-typed text).
C9_LastAnswerWins ==
    \A t \in Turns :
        Spawned(t) =>
            /\ ~StreamCompleted(t) => FinalAnswersOf(t) = <<>>
            /\ Len(FinalAnswersOf(t)) <= 1
            /\ (StreamCompleted(t) /\ AITexts(consumed[t]) = <<"A", "B">>)
                   => finalOutcome[t] \notin {"none", "pending"}
            /\ finalOutcome[t] = "sent" =>
                   /\ AITexts(consumed[t]) # <<>>
                   /\ FinalAnswersOf(t) =
                          << Some(AITexts(consumed[t])[Len(AITexts(consumed[t]))]) >>

\* A turn over AI "A", AI "B" is done and its answer was delivered.
C9_Witness ==
    \E t \in Turns :
        /\ pc[t] = "done"
        /\ AITexts(consumed[t]) = <<"A", "B">>
        /\ finalOutcome[t] = "sent"
        /\ FinalAnswersOf(t) = <<Some("B")>>

\* The final-answer candidate of a stream: the last AI-typed text, if any.
Candidate(stream) ==
    IF AITexts(stream) = <<>> THEN None
    ELSE Some(AITexts(stream)[Len(AITexts(stream))])

\* C10 (Spec): at stream completion the FinalAnswer is withheld as empty
\* iff the candidate is empty (no AI-typed message, or the last AI text is
\* ""); then nothing is sent for the turn and the turn still runs to its
\* normal end (its "finished" log event).  A non-empty candidate is sent on
\* the issuing connection, and is only dropped unsent when that connection
\* is no longer registered.
C10_FinalAnswerIffCandidate ==
    \A t \in Turns :
        StreamCompleted(t) =>
            /\ (finalOutcome[t] = "none")
                   <=> (Candidate(consumed[t]) \in {None, Some("")})
            /\ finalOutcome[t] = "none" => FinalAnswersOf(t) = <<>>
            /\ finalOutcome[t] = "discarded" =>
                   owner[t] \notin active_chat_connections
            /\ pc[t] = "done" =>
                   \E i \in 1..Len(log_buffer) :
                       /\ log_buffer[i].task = t
                       /\ log_buffer[i].message.kind = "finished"

\* A turn whose last AI text was empty is done, nothing was sent, and its
\* connection is still registered and open.
C10_Witness ==
    \E t \in Turns :
        /\ pc[t] = "done"
        /\ Candidate(consumed[t]) = Some("")
        /\ Len(consumed[t]) = 2
        /\ finalOutcome[t] = "none"
        /\ owner[t] \in active_chat_connections
        /\ sock[owner[t]] = "open"

\* The tool names of an upstream message's own origin, in order.
OriginTrace(m) == [i \in 1..Len(m.origin) |-> m.origin[i].tool]

\* C11 (Spec): every TraceStep a subscriber has received for an upstream
\* message of type AGENT or AGENT_TOOL_RESULT carries the tool names of
\* that message's origin, in order, and that message's text.
C11_TraceStepCarriesOwnOrigin ==
    \A ws \in IChatSocks : \A i \in 1..Len(inbox[ws]) :
        LET e == inbox[ws][i]
        IN  (e.task \in Turns /\ consumed[e.task][e.n].type \in TraceTypes)
            => /\ e.message.otrace = Some(OriginTrace(consumed[e.task][e.n]))
               /\ e.message.text = Some(consumed[e.task][e.n].text)

\* A subscriber got the TraceStep [x, y] / "routing" of a turn's second
\* message, the first having been a tool result with another origin.
C11_Witness ==
    \E ws \in IChatSocks : \E i \in 1..Len(inbox[ws]) :
        LET e == inbox[ws][i]
        IN  /\ e.task \in Turns
            /\ e.n = 2
            /\ consumed[e.task][1].type = "AGENT_TOOL_RESULT"
            /\ consumed[e.task][2].type = "AGENT"
            /\ e.message.otrace = Some(<<"x", "y">>)
            /\ e.message.text = Some("routing")

\* C12 (Spec), as claimed: a turn publishes a TraceStep only for a message
\* of type AGENT or AGENT_TOOL_RESULT (an AI-typed message causes none).
C12_NoTraceStepForAI ==
    \A t \in Turns :
        (iter[t].kind = "ichat" /\ iter[t].entry.task = t)
        => consumed[t][iter[t].entry.n].type \in TraceTypes

\* C13 (Spec), as claimed: the LogLine published for an upstream message
\* summarizes the origin trace of that same message (an absent summary is
\* accepted for a message with an empty origin).
C13_LogLineOfSameMessage ==
    \A i \in 1..Len(log_buffer) :
        LET e == log_buffer[i]
        IN  (e.task \in Turns /\ e.message.kind = "otrace")
            => \/ e.message.otrace = Some(OriginTrace(consumed[e.task][e.n]))
               \/ /\ e.message.otrace = None
                  /\ consumed[e.task][e.n].origin = <<>>

\* The last turn of connection k that has returned.
LastDone(k) == api_done[k][Len(api_done[k])]

\* Connection k's handler is between two turns (or has ended).
ApiBetweenTurns(k) == pc[k] \in {"api_recv", "api_closed"} /\ api_done[k] # <<>>

\* C14 (SpecApi), as claimed: a turn whose stream held a message without the
\* `response` field is not aborted by it: it ends with the stream's normal
\* completion (or an upstream failure), not with an error of the handler.
C14_ShapelessMessageTolerated ==
    \A k \in ApiConns : \A j \in 1..Len(api_done[k]) :
        (\E i \in 1..Len(api_done[k][j].stream) :
             api_done[k][j].stream[i].response = None)
        => api_done[k][j].ending \in {"finished", "upstream"}

\* The last continuation context seen on a message of the stream; prev
\* when no message carried one.
RECURSIVE LastSeenContext(_, _)
LastSeenContext(stream, prev) ==
    IF stream = <<>> THEN prev
    ELSE LET m == stream[Len(stream)]
         IN  IF m.response # None /\ m.response[1].chat_context # None
             THEN m.response[1].chat_context[1]
             ELSE LastSeenContext(SubSeq(stream, 1, Len(stream) - 1), prev)

\* The context a request was built from ("" when it carries none).
ContextOf(request) ==
    IF request.chat_context = None THEN "" ELSE request.chat_context[1]

\* C15 (SpecApi), as claimed: after a turn whose stream completed normally
\* the stored context is the last context seen on any message of the
\* stream (a trailing message without one does not erase it).
C15_LastSeenContextStored ==
    \A k \in ApiConns :
        (ApiBetweenTurns(k) /\ LastDone(k).ending = "finished")
        => chat_context[k] =
               LastSeenContext(LastDone(k).stream, ContextOf(LastDone(k).request))

\* The context stored by the most recent of the turns 1..j of connection
\* k that stored one; "" when none did.
RECURSIVE StoredAfter(_, _)
StoredAfter(k, j) ==
    IF j = 0 THEN ""
    ELSE IF api_done[k][j].stored # None THEN api_done[k][j].stored[1]
         ELSE StoredAfter(k, j - 1)

\* stream_chat_to_websocket of connection k has not returned.
ApiInTurn(k) ==
    pc[k] \in {"api_stream", "api_logging", "api_send", "api_sent",
               "api_finishing"}

\* C16 (SpecApi): on one connection a turn is requested only after the
\* preceding one has returned, its request carries the context stored by
\* the most recently completed turn, and carries no chat_context when no
\* context is stored (the first turn).
C16_RequestCarriesStoredContext ==
    \A k \in ApiConns :
        /\ Len(api_requests[k]) =
               Len(api_done[k]) + (IF ApiInTurn(k) THEN 1 ELSE 0)
        /\ \A j \in 1..Len(api_requests[k]) :
               /\ api_requests[k][j].chat_context =
                      (IF StoredAfter(k, j - 1) = "" THEN None
                       ELSE Some(StoredAfter(k, j - 1)))
               /\ j = 1 => api_requests[k][j].chat_context = None

\* A second turn was requested with the context the first one stored.
C16_Witness ==
    \E k \in ApiConns :
        /\ Len(api_requests[k]) = 2
        /\ api_done[k][1].ending = "finished"
        /\ api_done[k][1].stored = Some("ctx1")
        /\ api_requests[k][1].chat_context = None
        /\ api_requests[k][2].chat_context = Some("ctx1")

\* The handler of chat websocket c has ended, by return or by exception.
WsHandlerEnded(c) == pc[c] \in {"closed"} \cup Raised

\* The chat websockets whose client identity is k.
WebsocketsOf(k) == {c \in ChatSockets : client_id(c) = k}

\* C17 (SpecSession), as claimed: once the handlers of the chat
\* connections of a client identity have ended, for whatever reason,
\* neither the session entry nor the active-connection entry of the
\* client identity exists.
C17_EntriesRemovedOnClose ==
    \A k \in Clients :
        (/\ \E c \in WebsocketsOf(k) : WsHandlerEnded(c)
         /\ \A c \in WebsocketsOf(k) :
                WsHandlerEnded(c) \/ pc[c] \in {"idle", "unused"})
        => (/\ ~Registered(active_chat_connections, k)
            /\ user_sessions[k] = None)

\* A chat connection of the client identity task t works for was closed
\* and its handler has removed the session.
C18_SessionRemoved(t) ==
    \E c \in WebsocketsOf(IF t \in Turns THEN owner[t] ELSE BgClient) :
        pc[c] = "closed"

\* C18 (SpecSession), as claimed: a step a turn or a background handler
\* takes after its connection's session was removed creates and changes
\* no session entry, ends with no exception of its own, and changes
\* neither what is registered for delivery nor what any connection has
\* received.
C18_StaleSessionNoOp ==
    [][\A t \in Turns \cup Backgrounds :
           (pc[t] \notin {"idle", "unused"} /\ pc'[t] # pc[t]
            /\ C18_SessionRemoved(t))
           => /\ user_sessions' = user_sessions
              /\ active_chat_connections' = active_chat_connections
              /\ inbox' = inbox
              /\ pc'[t] \notin Raised]_vars

\* What connection k holds: its stored context and its turns.
ApiStateOf(k) ==
    <<chat_context[k], request_data[k], api_turn[k], api_requests[k],
      api_done[k], api_published[k], received[k]>>

\* The context connection k's own turns have stored last: the one of the
\* turn that is logging its end, else the one of the latest turn filed.
OwnContext(k) ==
    IF pc[k] = "api_finishing"
    THEN get_chat_context(api_turn[k].result_dict[1])
    ELSE StoredAfter(k, Len(api_done[k]))

\* C19 (SpecApiPair): with two chat connections active at once, a step of
\* one connection changes nothing the other one holds, the context a
\* connection stores is the one its own latest finished turn saw, and
\* each request it sends carries the context its own earlier turns
\* stored: neither depends on the other connection.
C19_ContextNotShared ==
    /\ [](\A k \in ApiConns :
            /\ chat_context[k] = OwnContext(k)
            /\ \A j \in 1..Len(api_requests[k]) :
                   ContextOf(api_requests[k][j]) = StoredAfter(k, j - 1))
    /\ [][\A k \in ApiConns : \A o \in ApiConns \ {k} :
              ApiStateOf(k)' # ApiStateOf(k) => ApiStateOf(o)' = ApiStateOf(o)]_vars

\* Both connections are active, each has stored its own context and has
\* sent a second request carrying it.
C19_Witness ==
    /\ {"a1", "a2"} \subseteq active_chat_connections
    /\ chat_context["a1"] = "ctx1"
    /\ chat_context["a2"] = "ctx2"
    /\ Len(api_requests["a1"]) = 2
    /\ Len(api_requests["a2"]) = 2
    /\ api_requests["a1"][2].chat_context = Some("ctx1")
    /\ api_requests["a2"][2].chat_context = Some("ctx2")


\* handle_streaming_chat of turn t has been started and has not reached
\* its last log_event.
TurnInFlight(t) == pc[t] \in {"start", "loop", "logging", "send"}

\* Turn t returned normally: every message it consumed has its LogLine in
\* the log buffer and its TraceStep at the subscriber, the "finished"
\* event was logged, and no FinalAnswer of t was delivered.
TurnRanToCompletion(t) ==
    /\ pc[t] = "done"
    /\ finalOutcome[t] \in {"none", "discarded", "failed"}
    /\ \A n \in 1..Len(consumed[t]) :
           /\ \E i \in 1..Len(log_buffer) :
                  /\ log_buffer[i].task = t
                  /\ log_buffer[i].n = n
                  /\ log_buffer[i].message.kind = "otrace"
           /\ \A ws \in Range(active_internal_chat_connections) :
                  \E i \in 1..Len(inbox[ws]) :
                      inbox[ws][i].task = t /\ inbox[ws][i].n = n
    /\ \E i \in 1..Len(log_buffer) :
           log_buffer[i].task = t /\ log_buffer[i].message.kind = "finished"
    /\ \A i \in 1..Len(inbox[owner[t]]) : inbox[owner[t]][i].task # t

\* C20 (SpecClose): once the chat connection of a turn in flight is
\* closed, the turn still runs to its normal end, publishing the LogLine
\* and the TraceStep of every message it consumes and delivering no
\* FinalAnswer; and nothing is ever sent on a closed chat connection.
C20_CloseDoesNotCancelTurn ==
    /\ \A t \in Turns :
           (TurnInFlight(t) /\ sock[owner[t]] = "closed")
               ~> TurnRanToCompletion(t)
    /\ [][\A c \in Clients :
              sock[c] = "closed" => inbox'[c] = inbox[c]]_vars

\* The connection was closed and cleaned up while its turn was in the
\* loop; the turn consumed two messages, the last one the AI answer,
\* which it discarded, and the subscriber got both TraceSteps.
C20_Witness ==
    /\ pc["c1"] = "closed"
    /\ TurnRanToCompletion("t1")
    /\ finalOutcome["t1"] = "discarded"
    /\ Len(consumed["t1"]) = 2
    /\ consumed["t1"][2].type = "AI"
    /\ "I1" \in Range(active_internal_chat_connections)
    /\ Len(inbox["I1"]) = 2


\* The subscriber list a socket of the log or internal-chat channel is in.
SubscribersOf(ws) ==
    IF ws \in LogSocks THEN active_log_connections
    ELSE active_internal_chat_connections

\* C21 (SpecDetect), as claimed: after a subscriber's connection closes,
\* its sink leaves the subscriber list whether or not anything is
\* published later, and once it is out no event is sent to it.
C21_CloseDetected ==
    /\ \A ws \in LogSocks \cup IChatSocks :
           (sock[ws] = "closed") ~> (ws \notin Range(SubscribersOf(ws)))
    /\ [][\A ws \in LogSocks \cup IChatSocks :
              (pc[ws] # "idle" /\ ws \notin Range(SubscribersOf(ws)))
                  => inbox'[ws] = inbox[ws]]_vars


\* The frames of kind `kind` connection k has received for its turn j.
ApiFramesOf(k, j, kind) ==
    {i \in 1..Len(inbox[k]) :
         inbox[k][i].n = j /\ inbox[k][i].message.kind = kind}

\* C22 (SpecApiPair), as claimed: a turn that ended because the upstream
\* failed has put exactly one error event on the chat channel of the
\* connection that asked (while it is open), and no connection has an
\* error event for a turn that did not fail.
C22_UpstreamErrorSurfaced ==
    \A k \in ApiConns : \A j \in 1..Len(api_done[k]) :
        IF api_done[k][j].ending = "upstream"
        THEN sock[k] = "open" => Cardinality(ApiFramesOf(k, j, "error")) = 1
        ELSE ApiFramesOf(k, j, "error") = {}


\* C23 (SpecApi), as claimed: a turn that has ended on a chat connection
\* that is still open has left an outcome on its chat channel, a final
\* answer or an error event.
C23_TurnLeavesOutcome ==
    \A k \in ApiConns : \A j \in 1..Len(api_done[k]) :
        sock[k] = "open"
        => \E i \in 1..Len(inbox[k]) :
               /\ inbox[k][i].n = j
               /\ inbox[k][i].message.kind \in {"AI", "error"}


\* Every message turn t consumed has its LogLine in the log buffer and its
\* TraceStep at every subscriber.
TurnEventsVisible(t) ==
    \A n \in 1..Len(consumed[t]) :
        /\ \E i \in 1..Len(log_buffer) :
               /\ log_buffer[i].task = t
               /\ log_buffer[i].n = n
               /\ log_buffer[i].message.kind = "otrace"
        /\ \A ws \in Range(active_internal_chat_connections) :
               \E i \in 1..Len(inbox[ws]) :
                   inbox[ws][i].task = t /\ inbox[ws][i].n = n

\* C24 (SpecFail): the step at which a turn's upstream fails changes no
\* buffer, no inbox and no registry; a failed turn's events stay in the
\* log buffer and with the subscribers, and the chat connection has no
\* FinalAnswer of it (even if an AI message was seen); the connection
\* stays registered, and a later turn that ends normally with an answer
\* delivers it.
C24_PartialEventsKept ==
    /\ [](\A t \in Turns :
            /\ pc[t] = "failed"
               => /\ TurnEventsVisible(t)
                  /\ \A i \in 1..Len(inbox[owner[t]]) :
                         inbox[owner[t]][i].task # t
                  /\ owner[t] \in active_chat_connections
            /\ (pc[t] = "done" /\ Truthy(final_response[t]))
               => \E i \in 1..Len(inbox[owner[t]]) :
                      /\ inbox[owner[t]][i].task = t
                      /\ inbox[owner[t]][i].message.text = final_response[t])
    /\ [][\A t \in Turns :
              (pc[t] # "failed" /\ pc'[t] = "failed")
              => /\ log_buffer' = log_buffer
                 /\ inbox' = inbox
                 /\ active_chat_connections' = active_chat_connections
                 /\ active_internal_chat_connections' =
                        active_internal_chat_connections]_vars

\* The first turn failed after an AGENT and an AI message; the second
\* turn of the same connection then ran and delivered its answer.
C24_Witness ==
    /\ pc["t1"] = "failed"
    /\ Len(consumed["t1"]) = 2
    /\ consumed["t1"][1].type = "AGENT"
    /\ consumed["t1"][2].type = "AI"
    /\ TurnEventsVisible("t1")
    /\ pc["t2"] = "done"
    /\ finalOutcome["t2"] = "sent"
    /\ Len(inbox["c1"]) = 1
    /\ Len(inbox["I1"]) >= 3


\* The frames of connection k, among its first n, that carry a non-empty
\* message.
RECURSIVE MessagesAmong(_, _)
MessagesAmong(k, n) ==
    IF n = 0 THEN <<>>
    ELSE LET f == received[k][n]
         IN  IF f.message \in {None, Some("")} THEN MessagesAmong(k, n - 1)
             ELSE Append(MessagesAmong(k, n - 1), f.message[1])

\* The frames of connection k whose handling is past its first await (the
\* log_event of a frame with a message).
FramesHandled(k) ==
    IF pc[k] = "api_input" THEN Len(received[k]) - 1 ELSE Len(received[k])

\* C25 (SpecFrames): a frame whose message is empty or absent changes
\* nothing (no request, no published event, same context and registry);
\* a frame with a message is logged and then opens exactly one upstream
\* call, for that message; so the calls made are the non-empty messages
\* received.
C25_EmptyFrameIsNoOp ==
    /\ [](\A k \in ApiConns :
            MessagesAmong(k, FramesHandled(k)) =
                [j \in 1..Len(api_requests[k]) |-> api_requests[k][j].user_message.text])
    /\ [][\A k \in ApiConns :
              received'[k] # received[k]
              => IF received'[k][Len(received'[k])].message \in {None, Some("")}
                 THEN /\ <<busVars, regVars, wsVars>>' = <<busVars, regVars, wsVars>>
                      /\ <<chat_context, request_data, api_turn, api_requests,
                            api_done, api_published>>'
                         = <<chat_context, request_data, api_turn, api_requests,
                             api_done, api_published>>
                 ELSE /\ pc'[k] = "api_input"
                      /\ api_requests' = api_requests]_vars

\* An empty frame and a frame without message came between two frames
\* with a message: two calls were made.
C25_Witness ==
    /\ Len(received["a1"]) = 3
    /\ received["a1"][1].message = Some("hello")
    /\ received["a1"][2].message \in {None, Some("")}
    /\ received["a1"][3].message = Some("hello")
    /\ Len(api_requests["a1"]) = 2


\* C26 (SpecTurns), as claimed: the answer text of a turn reaches no
\* socket but the chat connection that issued the turn: no other chat
\* connection, no log subscriber, no internal-chat subscriber.
C26_FinalAnswerOneRecipient ==
    \A t \in Turns : \A ws \in Sockets \ {owner[t]} :
        \A i \in 1..Len(inbox[ws]) :
            ~ /\ inbox[ws][i].task = t
              /\ Truthy(final_response[t])
              /\ inbox[ws][i].message.text = final_response[t]


\* C27 (SpecLogs), as claimed: removing a sink that is no longer in the
\* subscriber list (the failed send of another publish has pruned it)
\* raises no error: no coroutine is ended by the ValueError of
\* active_log_connections.remove.
C27_UnsubscribeIdempotent ==
    \A t \in LogSocks \cup Clients : pc[t] # "ValueError"

\* C28 (SpecSse), as claimed: what the SSE client has received is, entry
\* by entry, the buffer as it was when the client came, oldest first,
\* followed by the entries published after that, in order.
C28_SseReplaysBuffer ==
    \A i \in 1..Len(sse.sent) :
        IF i <= Len(sse.backlog)
        THEN sse.sent[i] = sse.backlog[i]
        ELSE sse.sent[i].id = sse.at + (i - Len(sse.backlog))


\* C29 (SpecVersion): get_version raises nothing; it returns the version
\* of the distribution when it is installed, and otherwise "dev.version"
\* for the name nsflow and "not found" for any other name.
C29_GetVersionFallback ==
    (fn_call.fn = "get_version" /\ fn_call.result # None)
    => LET installed == fn_call.args[1]
           package_name == fn_call.args[2]
           r == fn_call.result[1]
       IN  /\ r.raised = ""
           /\ installed[package_name] # None
              => r.value = installed[package_name][1]
           /\ (installed[package_name] = None /\ package_name = "nsflow")
              => r.value = "dev.version"
           /\ (installed[package_name] = None /\ package_name # "nsflow")
              => r.value = "not found"

\* nsflow is not installed while another distribution is: the call
\* returned "dev.version".
C29_Witness ==
    /\ fn_call.fn = "get_version"
    /\ fn_call.args[2] = "nsflow"
    /\ fn_call.args[1]["nsflow"] = None
    /\ fn_call.args[1]["neuro-san"] = Some("1.2.3")
    /\ fn_call.result = Some([raised |-> "", value |-> "dev.version"])


\* The positions of `tools` whose name no earlier tool has.
FirstOfName(tools) ==
    {i \in 1..Len(tools) :
         \A j \in 1..(i - 1) : tool_name_of(tools[j]) # tool_name_of(tools[i])}

\* C30 (SpecConnectivity): when extract_connectivity_info returns, the
\* result has one entry per distinct tool name, in declaration order (the
\* k-th entry comes from the k-th tool that is the first of its name);
\* the entry has a `tools` list exactly when that tool declares a
\* non-empty one, equal to it; its origin is the tool's class if it has
\* one, else the tool's name.
C30_ConnectivityPerDistinctTool ==
    (/\ fn_call.fn = "extract_connectivity_info"
     /\ fn_call.result # None
     /\ fn_call.result[1].raised = "")
    => LET tools == config_get_tools(fn_call.args[1].config[1])
           connectivity == fn_call.result[1].connectivity
           first == FirstOfName(tools)
       IN  /\ Len(connectivity) = Cardinality(first)
           /\ \A i \in first :
                  LET k == Cardinality({j \in first : j <= i})
                      tool == tools[i]
                      entry == connectivity[k]
                  IN  /\ entry.origin = IF tool.class # None THEN tool.class[1]
                                        ELSE tool_name_of(tool)
                      /\ entry.tools # None
                         <=> (tool.tools # None /\ tool.tools[1] # <<>>)
                      /\ entry.tools # None => entry.tools = tool.tools

\* Three tools, the third repeating the name of the first: two entries,
\* the first with the class as origin and no tools, the second with the
\* name as origin and its tools.
C30_Witness ==
    /\ fn_call.fn = "extract_connectivity_info"
    /\ fn_call.args[1] =
           ConfigFile(TRUE, Some([tools |-> Some(
               << ToolConfig(Some("a"), Some(<<>>), Some("mod.A")),
                  ToolConfig(Some("b"), Some(<<"b">>), None),
                  ToolConfig(Some("a"), Some(<<"b">>), None) >>)]))
    /\ fn_call.result =
           Some([raised |-> "", status_code |-> 0,
                 connectivity |->
                     << [origin |-> "mod.A", tools |-> None],
                        [origin |-> "b", tools |-> Some(<<"b">>)] >>])

\* C31 (SpecRequest): the request formulate_chat_request returns has the
\* user_message {type: HUMAN, text: user_input}; it has chat_context
\* exactly when the given context is a non-empty map, sly_data exactly
\* when it is not None and has a key, chat_filter exactly when it is not
\* None and has a key, each equal to the argument; it has no other key.
C31_RequestShape ==
    (fn_call.fn = "formulate_chat_request" /\ fn_call.result # None)
    => LET user_input == fn_call.args[1]
           sly_data == fn_call.args[2]
           ctx == fn_call.args[3]
           chat_filter == fn_call.args[4]
           r == fn_call.result[1]
       IN  /\ DOMAIN r = {"user_message", "chat_context", "sly_data",
                          "chat_filter"}
           /\ r.user_message = [type |-> "HUMAN", text |-> user_input]
           /\ r.chat_context # None <=> ctx # ""
           /\ r.chat_context # None => r.chat_context = Some(ctx)
           /\ r.sly_data # None <=> (sly_data # None /\ sly_data[1] # {})
           /\ r.sly_data # None => r.sly_data = sly_data
           /\ r.chat_filter # None
              <=> (chat_filter # None /\ chat_filter[1] # {})
           /\ r.chat_filter # None => r.chat_filter = chat_filter

\* A call with an empty context, an empty sly_data and a chat filter:
\* only user_message and chat_filter are in the request.
C31_Witness ==
    /\ fn_call.fn = "formulate_chat_request"
    /\ fn_call.args = <<"hello", Some({}), "", Some({"chat_filter_type"})>>
    /\ fn_call.result =
           Some([user_message |-> [type |-> "HUMAN", text |-> "hello"],
                 chat_context |-> None, sly_data |-> None,
                 chat_filter |-> Some({"chat_filter_type"})])


\* C32 (SpecStateRegistry), as claimed: list_networks() is exactly the
\* set of network names that have a registered manager, and every key the
\* index records for a network has a manager.
C32_RegistryIndexConsistent ==
    /\ list_networks = {SplitNetworkName(key) : key \in _managers}
    /\ \A n \in DOMAIN _network_to_keys :
           \A key \in Range(_network_to_keys[n]) : key \in _managers


\* C33 (SpecCopilot), as claimed: a call of load_from_copilot_state that
\* repeats the non-empty session id and the agent_network_name of an
\* earlier call, the session that call returned still being there,
\* returns the design id that call returned and registers no manager.
C33_LoadOrUpdate ==
    \A i, j \in 1..Len(copilot_loads) :
        ( /\ i < j
          /\ copilot_loads[i].session_id \notin {None, Some("")}
          /\ copilot_loads[i].session_id = copilot_loads[j].session_id
          /\ copilot_loads[i].network_name = copilot_loads[j].network_name
          /\ copilot_loads[i].design_id \in copilot_loads[j].before )
        => /\ copilot_loads[j].design_id = copilot_loads[i].design_id
           /\ copilot_loads[j].managers = copilot_loads[j].before

\* C34 (SpecSse), as claimed: the SSE client receives the entries
\* published after it connected, each once and in publish order; once the
\* generator has nothing left to send (it is back in its polling loop with
\* last_sent_index at the end of the buffer), every entry published since
\* the client connected has been sent.
C34_SseDeliversEveryEntry ==
    /\ \A i \in 1..Len(sse.sent) :
           /\ sse.sent[i].id > sse.at
           /\ \A j \in 1..(i - 1) : sse.sent[j].id < sse.sent[i].id
    /\ (sse.state = "loop" /\ sse.last_sent_index >= Len(log_buffer))
       => {sse.sent[i].id : i \in 1..Len(sse.sent)} = (sse.at + 1)..published


\* C35 (SpecApi): a turn that ends in an exception (the upstream call or
\* the stream raises, the stream yields no message, or a message has no
\* response) leaves the connection's stored chat_context as it was.
C35_FailedTurnKeepsContext ==
    [][\A k \in ApiConns :
           ( /\ Len(api_done'[k]) = Len(api_done[k]) + 1
             /\ api_done'[k][Len(api_done'[k])].ending # "finished" )
           => chat_context'[k] = chat_context[k]]_vars

\* A turn stored "ctx1"; the next one took messages from the stream and
\* then failed upstream: the stored context is still "ctx1".
C35_Witness ==
    \E k \in ApiConns :
        /\ Len(api_done[k]) = 2
        /\ api_done[k][1].ending = "finished"
        /\ api_done[k][1].stored = Some("ctx1")
        /\ api_done[k][2].ending = "upstream"
        /\ api_done[k][2].stream # <<>>
        /\ chat_context[k] = "ctx1"


\* C36 (SpecStateManager), as claimed: a call of update_network_state
\* returns, whatever the subscribed callbacks do: the thread that entered
\* a call of the manager is eventually back outside of it.
C36_UpdateReturns ==
    (sm_thread.stack # <<>>) ~> (sm_thread.stack = <<>>)


\* The (origin, tool) pairs of a connectivity_info.
C37_Pairs(info) ==
    UNION {{<<info[i].origin, entry_tools(info[i])[k]>> :
                k \in 1..Len(entry_tools(info[i]))} : i \in 1..Len(info)}

\* C37 (SpecBuild), as claimed: a call of build_nodes_and_edges returns,
\* whatever the connectivity_info, and what it returns has one node for
\* each distinct origin or tool name, an edge for each (origin, tool)
\* pair and no other edge.
C37_BuildTerminates ==
    <>(/\ fn_call.result # None
       /\ LET info == fn_call.args[1]
              result == fn_call.result[1]
              names == {info[i].origin : i \in 1..Len(info)}
                       \cup UNION {Range(entry_tools(info[i])) :
                                       i \in 1..Len(info)}
          IN  /\ {n.id : n \in result.nodes} = names
              /\ Cardinality(result.nodes) = Cardinality(names)
              /\ \A p \in C37_Pairs(info) :
                     \E k \in 1..Len(result.edges) :
                         /\ result.edges[k].source = p[1]
                         /\ result.edges[k].target = p[2]
              /\ \A k \in 1..Len(result.edges) :
                     <<result.edges[k].source, result.edges[k].target>>
                         \in C37_Pairs(info))


\* C38 (SpecAgents), as claimed: no two agents of a network's tools list
\* have the same name, and a request answered 404 or 409 leaves the
\* network files as they were.
C38_AgentNamesUnique ==
    /\ [](\A n \in DOMAIN network_files :
              \A i, j \in 1..Len(network_files[n]) :
                  network_files[n][i].name = network_files[n][j].name
                  => i = j)
    /\ [][http_response'.status \in {404, 409}
          => network_files' = network_files]_vars


\* C39 (SpecRename), as claimed: a rename that succeeds leaves the file,
\* the manifest entry and the editing session (when there was one) under
\* the new name and nothing under the old one; a rename that fails (404,
\* 409, or an error while the manifest is updated) leaves the files, the
\* manifest and the editing sessions as they were.
C39_RenameAllOrNothing ==
    [][http_response'.endpoint = "update_network_title"
       => LET old == http_response'.network_name
              new == http_response'.title
          IN  IF http_response'.status = 200
              THEN old # new
                   => /\ new \in DOMAIN network_files'
                      /\ old \notin DOMAIN network_files'
                      /\ new \in manifest' /\ old \notin manifest'
                      /\ old \notin DOMAIN editing_sessions'
                      /\ old \in DOMAIN editing_sessions
                         => new \in DOMAIN editing_sessions'
              ELSE <<network_files, manifest, editing_sessions>>'
                   = <<network_files, manifest, editing_sessions>>]_vars


\* How many times line id is in the tee file / in the emissions made on
\* the console.
TimesInFile(id) == Cardinality({i \in 1..Len(tee.file) : tee.file[i] = id})
TimesOnConsole(id) ==
    Cardinality({<<i, j>> \in (1..Len(tee.console)) \X (1..MaxLines) :
                     j <= Len(tee.console[i]) /\ tee.console[i][j] = id})

\* C40 (SpecTee), as claimed: no line is written to the tee file or
\* emitted on the console more than once, and once the pipe is drained to
\* its end and closed every line the child wrote is in the tee file once
\* and on the console once.
C40_EveryLineOnce ==
    /\ \A id \in 1..Len(pipe.lines) :
           TimesInFile(id) <= 1 /\ TimesOnConsole(id) <= 1
    /\ tee.closed
       => \A id \in 1..Len(pipe.lines) :
              TimesInFile(id) = 1 /\ TimesOnConsole(id) = 1

============================================================================
